---- MODULE Spec2Model ----
(***************************************************************************)
(* A model of the dog-walk-recap application: route point thinning         *)
(* (lib/geo), the canvas recap compositor (lib/recapImage), the weather    *)
(* and media-proxy API routes, the publish flow of the home page, the      *)
(* names uploadMedia derives, the route drawer, computeEarned, the photo   *)
(* slots of the recap-image route, the dashboard's pay week and calendar,  *)
(* and the document loads and the preview of the walk viewer.              *)
(*                                                                         *)
(* Each part of the program has its own variables and its own              *)
(* specification (SpecThin, SpecWrap, SpecRecap, SpecApi, SpecPublish,     *)
(* SpecUpload, SpecFit, SpecDrawer, SpecEarned, SpecSlots, SpecPay,        *)
(* SpecCalendar, SpecLoad, SpecPreview, SpecPreviewFair); it holds         *)
(* the variables of the other parts at fixed values (the ...Parked         *)
(* predicates), and every step leaves them alone.                          *)
(***************************************************************************)
EXTENDS Integers, Sequences, FiniteSets, TLC

VARIABLES
  \* ---- thinPoints(points, minMeters) ----
  tPoints,      \* the points argument: a sequence of point objects
  tMin,         \* the minMeters argument
  tOut,         \* the returned sequence
  tDone         \* whether the call has returned

thinVars == <<tPoints, tMin, tOut, tDone>>

VARIABLES
  \* ---- wrapText(ctx, text, x, y, maxWidth, lineHeight, maxLines) ----
  wWords,       \* text.split(/\s+/): the words, each given by its width
  wDraws,       \* the fillText calls made, in order
  wDone         \* whether the call has returned

wrapVars == <<wWords, wDraws, wDone>>

VARIABLES
  \* ---- generateWalkRecapPng(params) ----
  rPhotoUrls,   \* params.photoUrls.length
  rHasMapUrl,   \* whether buildStaticMapUrl returns a URL (token set, >= 2 points)
  rNotes,       \* the words of notesText
  rPc,          \* where the call is: "start", "map", "photos", "export",
                \* "resolved", "rejected"
  rCtx,         \* what canvas.getContext("2d") returned: "unknown", "ok", "null"
  rI,           \* the photo loop's i
  rFetches,     \* the URLs requested so far (mapUrl, or a photo index), in order
  rOutcomes,    \* per photo fetch so far: TRUE when fetchImageBitmap resolved
  rDraws,       \* what has been drawn on the canvas, in order
  rBlob         \* what canvas.toBlob handed to its callback: "unknown", "blob", "null"

recapVars == <<rPhotoUrls, rHasMapUrl, rNotes, rPc, rCtx, rI, rFetches, rOutcomes,
               rDraws, rBlob>>

VARIABLES
  \* ---- GET /api/media-proxy?url=... ----
  pUrl,         \* searchParams.get("url"): [given, value] (not given: null)
  pPc,          \* "request", "fetching", "done", "threw"
  pUpstream,    \* the URLs the handler has fetched, in order
  pGot,         \* what the upstream did: [kind], kind "none", "threw", "notOk",
                \* "unread" (body broke off) or "ok" (with header and bytes)
  pResp,        \* the response: [status, contentType, body]
  \* ---- GET /api/weather?lat=...&lng=... ----
  xLat,         \* searchParams.get("lat"): [given, value]
  xLng,         \* searchParams.get("lng"): [given, value]
  xPc,          \* "request", "fetching", "done", "threw"
  xUpstream,    \* the upstream requests made: [lat, lng], in order
  xGot,         \* what the upstream did: [kind], kind "none", "threw", "notOk",
                \* "notJson" or "json" (with the parsed body as data)
  xResp         \* the response: [status, temperatureF, summary]

proxyVars == <<pUrl, pPc, pUpstream, pGot, pResp>>
weatherVars == <<xLat, xLng, xPc, xUpstream, xGot, xResp>>
apiVars == <<proxyVars, weatherVars>>

VARIABLES
  \* ---- the home page: publishWalk ----
  files,        \* the number of selected files (files[1..files], in selection order)
  publishing,   \* the publishing state flag
  pubPc,        \* "idle", "creating", "uploadBytes", "getUrl", "updating", "navigated"
  walkId,       \* the id createWalk returned to the running publishWalk (0: none)
  fileIdx,      \* the file the upload loop is at
  uploadedMedia,\* the media references collected by the running publishWalk
  walks,        \* the document store's walks collection: walks[id] is a document
  objects,      \* the object store: the uploaded objects, [walk, file]
  alerts,       \* the number of "Failed to publish walk" alerts shown
  attempts      \* the number of publishWalk calls that got past the guard

publishVars == <<files, publishing, pubPc, walkId, fileIdx, uploadedMedia, walks,
                 objects, alerts, attempts>>

VARIABLES
  \* ---- uploadMedia(walkId, file): the names it derives from file.name ----
  uName,        \* file.name: a sequence of characters
  uRef,         \* the returned reference's name, and the filename of its path
  uDone,        \* whether the call has returned
  uType,        \* file.type: the MIME type, "" when the browser knows none
  uStored,      \* the contentType uploadBytes was called with
  uMeta         \* the returned reference's type and contentType

uploadVars == <<uName, uRef, uDone, uType, uStored, uMeta>>

VARIABLES
  \* ---- drawRoundedImage(ctx, img, x, y, w, h, r) ----
  fImg,         \* img: [width, height]
  fBox,         \* the target box: [x, y, w, h]
  fDrawn,       \* the arguments of ctx.drawImage: [dx, dy, drawW, drawH]
  fDone         \* whether the call has returned

fitVars == <<fImg, fBox, fDrawn, fDone>>

VARIABLES
  \* ---- the route drawer: WalkMap ----
  dMap,         \* whether mapRef.current is set (the map was created)
  dPoints,      \* the points state
  dIsDrawing,   \* the isDrawing state
  dPending,     \* whether the [points] effect has yet to run for dPoints
  dReported     \* the last onRouteChange call: [called, points, miles]

drawerVars == <<dMap, dPoints, dIsDrawing, dPending, dReported>>

VARIABLES
  \* ---- computeEarned(durationMinutes), both copies ----
  eDuration,    \* durationMinutes: [kind, v], kind "finite", "NaN", "Infinity"
                \* or "-Infinity"
  eRoute,       \* what the recap-image route's copy returned
  ePage,        \* what the walk page's copy returned
  eDone         \* whether both calls have returned

earnedVars == <<eDuration, eRoute, ePage, eDone>>

VARIABLES
  \* ---- the recap-image route: fetchWalk's photoUrls and the photo slots ----
  sMedia,       \* the walk document's media, in stored order: [type, url]
  sSlots,       \* the slots rendered: per slot the URL of its img, or 0
  sDone         \* whether the response has been rendered

slotsVars == <<sMedia, sSlots, sDone>>

VARIABLES
  \* ---- the dashboard: the pay week ----
  yNow,         \* new Date() at the first render: [day, minute], local time
  yWalks,       \* the walks state (the loaded documents)
  yStart,       \* payStart
  yEnd,         \* payEnd
  yTotal,       \* payTotal
  yDone         \* whether the memos have been computed

payVars == <<yNow, yWalks, yStart, yEnd, yTotal, yDone>>

VARIABLES
  \* ---- the dashboard: the calendar of the selected month ----
  kMonth,       \* the month of monthCursor: [first, length], first the day
                \* number of its 1st
  kWalks,       \* the walks state (the loaded documents)
  kDays,        \* calendar.days, as day numbers
  kByDay,       \* calendar.byDay: the per-day counts and totals
  kDone         \* whether the memo has been computed

calVars == <<kMonth, kWalks, kDays, kByDay, kDone>>

VARIABLES
  \* ---- the walk viewer: the load effect on [walkId] ----
  vMounted,     \* whether the component is mounted
  vWalkId,      \* the walkId prop (0: empty)
  vLoads,       \* the load() calls awaiting getDoc: [n, walkId, alive]
  vStarted,     \* the number of load() calls started
  vWalk,        \* the walk state: the walkId of the document it holds (0: null)
  vErr,         \* the err state: [set, from] (from: the walkId of the failed load)
  vLoading,     \* the loading state
  \* ---- the dashboard: the load effect on [] ----
  gMounted,     \* whether the component is mounted
  gAlive,       \* the effect's alive flag
  gLoadPc,      \* "loading" (awaiting getDocs), "done"
  gWalks,       \* the walks state: "none", or "snapshot" once loaded
  gErr,         \* the err state: whether a message is set
  gLoading      \* the loading state

viewerVars == <<vMounted, vWalkId, vLoads, vStarted, vWalk, vErr, vLoading>>
dashVars == <<gMounted, gAlive, gLoadPc, gWalks, gErr, gLoading>>
loadVars == <<viewerVars, dashVars>>

VARIABLES
  \* ---- the walk viewer: showPreview / closePreview ----
  qVariant,     \* "canvas" (generateWalkRecapPng) or "route" (the recap-image route)
  qHasWalk,     \* whether the guard's first operand lets the call through
  qBusy,        \* the previewBusy state
  qOpen,        \* the previewOpen state (canvas variant)
  qUrl,         \* the previewUrl state: an object URL's number, 0 when empty
  qRevoked,     \* the object URLs revoked so far
  qCreated,     \* the number of object URLs created so far
  qGens,        \* the number of preview generations in flight
  qStarted,     \* the number of preview generations started
  qAlerts       \* the number of failure alerts shown

previewVars == <<qVariant, qHasWalk, qBusy, qOpen, qUrl, qRevoked, qCreated, qGens,
                 qStarted, qAlerts>>

vars == <<thinVars, wrapVars, recapVars, apiVars, publishVars, uploadVars, fitVars,
          drawerVars, earnedVars, slotsVars, payVars, calVars, loadVars,
          previewVars>>

\* A step of one part of the program leaves the other parts alone.
ThinOnly ==
  UNCHANGED <<wrapVars, recapVars, apiVars, publishVars, uploadVars, fitVars,
              drawerVars, earnedVars, slotsVars, payVars, calVars, loadVars,
              previewVars>>
WrapOnly ==
  UNCHANGED <<thinVars, recapVars, apiVars, publishVars, uploadVars, fitVars,
              drawerVars, earnedVars, slotsVars, payVars, calVars, loadVars,
              previewVars>>
RecapOnly ==
  UNCHANGED <<thinVars, wrapVars, apiVars, publishVars, uploadVars, fitVars,
              drawerVars, earnedVars, slotsVars, payVars, calVars, loadVars,
              previewVars>>
ProxyOnly ==
  UNCHANGED <<thinVars, wrapVars, recapVars, weatherVars, publishVars,
              uploadVars, fitVars, drawerVars, earnedVars, slotsVars, payVars,
              calVars, loadVars, previewVars>>
WeatherOnly ==
  UNCHANGED <<thinVars, wrapVars, recapVars, proxyVars, publishVars,
              uploadVars, fitVars, drawerVars, earnedVars, slotsVars, payVars,
              calVars, loadVars, previewVars>>
PublishOnly ==
  UNCHANGED <<thinVars, wrapVars, recapVars, apiVars, uploadVars, fitVars,
              drawerVars, earnedVars, slotsVars, payVars, calVars, loadVars,
              previewVars>>
UploadOnly ==
  UNCHANGED <<thinVars, wrapVars, recapVars, apiVars, publishVars, fitVars,
              drawerVars, earnedVars, slotsVars, payVars, calVars, loadVars,
              previewVars>>
FitOnly ==
  UNCHANGED <<thinVars, wrapVars, recapVars, apiVars, publishVars, uploadVars,
              drawerVars, earnedVars, slotsVars, payVars, calVars, loadVars,
              previewVars>>
DrawerOnly ==
  UNCHANGED <<thinVars, wrapVars, recapVars, apiVars, publishVars, uploadVars,
              fitVars, earnedVars, slotsVars, payVars, calVars, loadVars,
              previewVars>>
EarnedOnly ==
  UNCHANGED <<thinVars, wrapVars, recapVars, apiVars, publishVars, uploadVars,
              fitVars, drawerVars, slotsVars, payVars, calVars, loadVars,
              previewVars>>
SlotsOnly ==
  UNCHANGED <<thinVars, wrapVars, recapVars, apiVars, publishVars, uploadVars,
              fitVars, drawerVars, earnedVars, payVars, calVars, loadVars,
              previewVars>>
PayOnly ==
  UNCHANGED <<thinVars, wrapVars, recapVars, apiVars, publishVars, uploadVars,
              fitVars, drawerVars, earnedVars, slotsVars, calVars, loadVars,
              previewVars>>
CalOnly ==
  UNCHANGED <<thinVars, wrapVars, recapVars, apiVars, publishVars, uploadVars,
              fitVars, drawerVars, earnedVars, slotsVars, payVars, loadVars,
              previewVars>>
ViewerOnly ==
  UNCHANGED <<thinVars, wrapVars, recapVars, apiVars, publishVars, uploadVars,
              fitVars, drawerVars, earnedVars, slotsVars, payVars, calVars,
              dashVars, previewVars>>
DashOnly ==
  UNCHANGED <<thinVars, wrapVars, recapVars, apiVars, publishVars, uploadVars,
              fitVars, drawerVars, earnedVars, slotsVars, payVars, calVars,
              viewerVars, previewVars>>
PreviewOnly ==
  UNCHANGED <<thinVars, wrapVars, recapVars, apiVars, publishVars, uploadVars,
              fitVars, drawerVars, earnedVars, slotsVars, payVars, calVars,
              loadVars>>

\* ------------------------------------------------------------------ bounds

\* Longest points array handed to thinPoints.
MaxPts == 4

\* Largest latitude of a point, in metres of arc along one meridian.
MaxLat == 3

\* Most words in a notes text handed to wrapText.
MaxWords == 4

\* Most entries of params.photoUrls (one more than the 8 the collage keeps).
MaxUrls == 9

\* Most files selected for one walk.
MaxFiles == 2

\* Most publishWalk calls that get past the publishing guard.
MaxAttempts == 3

\* Longest file name handed to uploadMedia, in characters.
MaxNameLen == 3

\* Largest width or height of an image or of a target box, in pixels.
MaxDim == 4

\* Most points of a route drawn in the drawer.
MaxRoute == 3

\* Longest walk duration handed to computeEarned, in minutes.
MaxMinutes == 100

\* Largest weather code the summary mapping is tabulated for.
MaxCode == 100

\* Most media entries of a stored walk.
MaxMedia == 8

\* Most walks loaded into the dashboard.
MaxWalks == 2

\* Most loads the walk viewer starts.
MaxLoads == 3

\* Most preview generations started.
MaxPreviews == 6

\* ------------------------------------------------------------- small helpers

Abs(n) == IF n < 0 THEN -n ELSE n

Last(s) == s[Len(s)]

RECURSIVE CountIn(_, _)
\* The number of positions of sequence s that hold the value v.
CountIn(s, v) ==
  IF s = <<>> THEN 0
  ELSE (IF Last(s) = v THEN 1 ELSE 0) + CountIn(SubSeq(s, 1, Len(s) - 1), v)

\* ---------------------------------------------------------------- lib/geo

(***************************************************************************)
(* A point object is [id, lat]: id is the identity of the JavaScript       *)
(* object (what !== compares), lat its latitude.  All points of the model  *)
(* lie on one meridian and lat is counted in metres of arc, so that the    *)
(* haversine formula, 2 R asin(sqrt(sin^2(dLat/2))) when dLng = 0, is      *)
(* exactly R |dLat|: the difference of the two lat values, in metres.      *)
(***************************************************************************)
haversineMeters(a, b) == Abs(b.lat - a.lat)

\* a !== b on two point objects: reference inequality.
NotSameObject(a, b) == a.id # b.id

\* The minMeters arguments: 0 keeps everything, 2 is the route drawer's
\* argument, 3 the default.
MinMetersSet == {0, 2, 3}

\* Identity patterns of an array of n objects: g[i] is the identity of
\* element i, numbered in order of first appearance (an array may hold the
\* same object twice).
IdPatterns(n) ==
  {g \in [1..n -> 1..n] :
     \A i \in 1..n : \/ \E j \in 1..(i - 1) : g[j] = g[i]
                     \/ /\ \A j \in 1..(i - 1) : g[j] < g[i]
                        /\ \A k \in 1..(g[i] - 1) : \E j \in 1..(i - 1) : g[j] = k}

\* The number of distinct objects in an array with identity pattern g.
NumObjects(g) == Cardinality({g[i] : i \in DOMAIN g})

\* The points array with identity pattern g whose object k has latitude l[k].
PointArray(g, l) == [i \in DOMAIN g |-> [id |-> g[i], lat |-> l[g[i]]]]

\* The loop of thinPoints with `last` never advanced past points[0].
RECURSIVE thinLoopStaleLast(_, _, _, _, _)
thinLoopStaleLast(points, minMeters, i, out, last) ==
  IF i > Len(points) THEN out
  ELSE IF haversineMeters(last, points[i]) >= minMeters
       THEN thinLoopStaleLast(points, minMeters, i + 1, Append(out, points[i]), last)
       ELSE thinLoopStaleLast(points, minMeters, i + 1, out, last)

\* for (let i = 1; i < points.length; i++) { ... }: i is 1-based here.
RECURSIVE thinLoop(_, _, _, _, _)
thinLoop(points, minMeters, i, out, last) ==
  IF i > Len(points) THEN out
  ELSE IF haversineMeters(last, points[i]) >= minMeters
       THEN thinLoop(points, minMeters, i + 1, Append(out, points[i]), points[i])
       ELSE thinLoop(points, minMeters, i + 1, out, last)

\* "Ensure last point included", without the test that it is not there yet.
ensureLastAlways(out, points) == Append(out, Last(points))

\* if (out[out.length - 1] !== points[points.length - 1]) out.push(...)
ensureLast(out, points) ==
  IF NotSameObject(Last(out), Last(points)) THEN Append(out, Last(points)) ELSE out

thinPoints(points, minMeters) ==
  IF Len(points) <= 2 THEN points
  ELSE ensureLast(thinLoop(points, minMeters, 2, <<points[1]>>, points[1]), points)

\* Every points array of at most MaxPts objects, each object with one
\* latitude in 0..MaxLat.
ThinStart ==
  /\ \E n \in 0..MaxPts :
       \E g \in IdPatterns(n) :
         \E l \in [1..NumObjects(g) -> 0..MaxLat] :
           tPoints = PointArray(g, l)
  /\ tMin \in MinMetersSet
  /\ tOut = <<>>
  /\ tDone = FALSE

\* One call of thinPoints on the drawn arguments.
ThinCall ==
  /\ ~tDone
  /\ tOut' = thinPoints(tPoints, tMin)
  /\ tDone' = TRUE
  /\ UNCHANGED <<tPoints, tMin>>
  /\ ThinOnly

\* ------------------------------------------------------ lib/recapImage: layout

\* The canvas and the layout constants of generateWalkRecapPng.
W == 1080
H == 1920
pad == 48
headerH == 220
mapH == 520
statsH == 240
cardGap == 24
innerPad == 28

mapY == headerH
mapX == pad
mapW == W - pad * 2
statsY == mapY + mapH + cardGap

\* The arguments of the notes block's wrapText call.
notesX == pad + innerPad
notesY == statsY + 210
notesMaxWidth == mapW - innerPad * 2
notesLineHeight == 34
notesMaxLines == 2

\* ---------------------------------------------------- lib/recapImage: wrapText

(***************************************************************************)
(* A word is modelled by the width ctx.measureText gives it; a line is a   *)
(* sequence of words.  A line's width is the sum of its words' widths and  *)
(* of one space (8 pixels in the model's font) between neighbours.  A      *)
(* fillText call is recorded as [text, ellipsis, y]: the words of the      *)
(* line, whether "..." was appended to it, and its baseline.               *)
(***************************************************************************)
RECURSIVE SumWidths(_)
SumWidths(ws) == IF ws = <<>> THEN 0 ELSE ws[1] + SumWidths(Tail(ws))

measureTextWidth(line) == SumWidths(line) + 8 * (Len(line) - 1)

\* Widths of single words: three fit on a line, two do not, wider than a line.
WordWidths == {300, 500, 1000}

\* The notes texts: notesText is trimmed and never empty ("-" stands in for
\* empty notes), so split(/\s+/) gives one or more non-empty words.
NotesInputs == UNION {[1..n -> WordWidths] : n \in 1..MaxWords}

fillText(text, ellipsis, y) == [text |-> text, ellipsis |-> ellipsis, y |-> y]

\* The loop of wrapText from word i on; line is the pending line, lines the
\* number of lines drawn so far, draws the fillText calls made so far.
RECURSIVE wrapLoop(_, _, _, _, _, _, _, _, _)
wrapLoop(words, i, line, lines, draws, y, maxWidth, lineHeight, maxLines) ==
  IF i > Len(words)
  THEN Append(draws, fillText(line, FALSE, y + lines * lineHeight))
  ELSE LET test == IF line # <<>> THEN Append(line, words[i]) ELSE <<words[i]>>
           w == measureTextWidth(test)
       IN IF w > maxWidth /\ line # <<>>
          THEN LET drawn == Append(draws, fillText(line, FALSE, y + lines * lineHeight))
               IN IF lines + 1 >= maxLines
                  THEN Append(drawn, fillText(<<words[i]>>, TRUE,
                                              y + (lines + 1) * lineHeight))
                  ELSE wrapLoop(words, i + 1, <<words[i]>>, lines + 1, drawn,
                                y, maxWidth, lineHeight, maxLines)
          ELSE wrapLoop(words, i + 1, test, lines, draws,
                        y, maxWidth, lineHeight, maxLines)

wrapText(words, y, maxWidth, lineHeight, maxLines) ==
  wrapLoop(words, 1, <<>>, 0, <<>>, y, maxWidth, lineHeight, maxLines)

WrapStart ==
  /\ wWords \in NotesInputs
  /\ wDraws = <<>>
  /\ wDone = FALSE

\* The notes block's call of wrapText.
WrapCall ==
  /\ ~wDone
  /\ wDraws' = wrapText(wWords, notesY, notesMaxWidth, notesLineHeight, notesMaxLines)
  /\ wDone' = TRUE
  /\ UNCHANGED wWords
  /\ WrapOnly

\* ------------------------------------------ lib/recapImage: generateWalkRecapPng

Min(a, b) == IF a < b THEN a ELSE b

\* The collage card and its grid.
collageY == statsY + statsH + cardGap
collageH == H - collageY - pad
gridPad == 22
gridX == pad + gridPad
gridY == collageY + 84
gridW == W - pad * 2 - gridPad * 2
gridH == collageH - 110
gap == 16

\* (params.photoUrls || []).slice(0, 8)
maxPhotos == 8
urlsLength(photoUrls) == Min(photoUrls, maxPhotos)

\* A grid of 2 columns whatever the photo count.
colsAlwaysTwo(n) == 2

\* The grid chosen for n = urls.length photos.
cols(n) == IF n <= 4 THEN 2 ELSE IF n <= 6 THEN 3 ELSE 4
rows(n) == 2

cellW(n) == (gridW - gap * (cols(n) - 1)) \div cols(n)
cellH(n) == (gridH - gap * (rows(n) - 1)) \div rows(n)

\* The cell of index i in the grid for n photos: r = floor(i / cols),
\* c = i % cols, x = gridX + c * (cellW + gap), y = gridY + r * (cellH + gap).
cellRow(n, i) == i \div cols(n)
cellCol(n, i) == i % cols(n)
cellRect(n, i) ==
  [x |-> gridX + cellCol(n, i) * (cellW(n) + gap),
   y |-> gridY + cellRow(n, i) * (cellH(n) + gap),
   w |-> cellW(n),
   h |-> cellH(n)]

\* One drawing operation: kind says what, src which photo (-1: none), rect where.
Draw(kind, src, rect) == [kind |-> kind, src |-> src, rect |-> rect]
NoRect == [x |-> 0, y |-> 0, w |-> 0, h |-> 0]
mapRect == [x |-> mapX, y |-> mapY, w |-> mapW, h |-> mapH]

\* The map image URL among the requested URLs (the photo URLs are given by
\* their indices, from 0).
mapUrl == 0 - 1

\* What fetchImageBitmap(url) can do: resolve with a bitmap; reject because
\* fetch itself rejects, because the response is not OK, or because reading or
\* decoding the body throws.
FetchOutcomes == {"ok", "fetchThrows", "notOk", "decodeThrows"}

\* The texts the notes block is rendered with in the model.
RenderNotes == {<<300>>, <<500, 500, 500>>}

\* The notes lines as drawing operations.
notesDraws(words) ==
  LET lines == wrapText(words, notesY, notesMaxWidth, notesLineHeight, notesMaxLines)
  IN [k \in 1..Len(lines) |->
        Draw(IF lines[k].ellipsis THEN "notesLineEllipsis" ELSE "notesLine", -1,
             [x |-> notesX, y |-> lines[k].y, w |-> 0, h |-> 0])]

\* Background, header and map card: drawn before the map image is requested.
headDraws ==
  <<Draw("background", -1, [x |-> 0, y |-> 0, w |-> W, h |-> H]),
    Draw("header", -1, [x |-> pad, y |-> 0, w |-> W - pad * 2, h |-> headerH]),
    Draw("mapCard", -1, mapRect)>>

\* Stats card, notes and collage card: drawn between the map and the photos.
midDraws(words) ==
  <<Draw("statsCard", -1, [x |-> pad, y |-> statsY, w |-> W - pad * 2, h |-> statsH])>>
  \o notesDraws(words)
  \o <<Draw("collageCard", -1,
            [x |-> pad, y |-> collageY, w |-> W - pad * 2, h |-> collageH])>>

\* The photo loop without its try/catch: a failed photo rejects the call.
loopAfterRethrow(n, i, ok) ==
  IF ~ok THEN "rejected"
  ELSE IF i + 1 < n /\ cellRow(n, i + 1) < rows(n) THEN "photos" ELSE "export"

\* The catch block of the photo loop, leaving the loop on a failed photo.
loopAfterBreakOnFailure(n, i, ok) ==
  IF ok /\ i + 1 < n /\ cellRow(n, i + 1) < rows(n) THEN "photos" ELSE "export"

\* A loop that requests the same photo again when its request failed.
nextIndexRetrying(i, ok) == IF ok THEN i + 1 ELSE i

\* for (let i = 0; i < urls.length; i++): the index after photo i, whether
\* the try block completed or the catch block ran.
nextIndex(i, ok) == i + 1

\* Where the photo loop goes after photo i: on to photo i + 1 (i++, then the
\* loop condition and the r >= rows break), or out to the export.
loopAfter(n, i, ok) ==
  IF i + 1 < n /\ cellRow(n, i + 1) < rows(n) THEN "photos" ELSE "export"

\* The code from the end of the map block to the first await after it.
\* draws: the canvas after the map block.
AfterMap(draws) ==
  LET n == urlsLength(rPhotoUrls)
      mid == draws \o midDraws(rNotes)
  IN IF n = 0
     THEN /\ rDraws' = Append(mid, Draw("noPhotosText", -1, NoRect))
          /\ rPc' = "export"
          /\ UNCHANGED <<rI, rFetches>>
     ELSE \* i = 0: r = 0 < rows, so the first photo is requested
          /\ rDraws' = mid
          /\ rPc' = "photos"
          /\ rI' = 0
          /\ rFetches' = Append(rFetches, 0)

RecapStart ==
  /\ rPhotoUrls \in 0..MaxUrls
  /\ rHasMapUrl \in BOOLEAN
  /\ rNotes \in RenderNotes
  /\ rPc = "start"
  /\ rCtx = "unknown"
  /\ rI = 0
  /\ rFetches = <<>>
  /\ rOutcomes = <<>>
  /\ rDraws = <<>>
  /\ rBlob = "unknown"

\* const ctx = canvas.getContext("2d"); if (!ctx) throw ...
RenderNoContext ==
  /\ rPc = "start"
  /\ rCtx' = "null"
  /\ rPc' = "rejected"
  /\ UNCHANGED <<rPhotoUrls, rHasMapUrl, rNotes, rI, rFetches, rOutcomes, rDraws, rBlob>>
  /\ RecapOnly

\* From the call to its first await: with a map URL the map image is
\* requested; without one "Map unavailable" is drawn and the code runs on.
RenderBegin ==
  /\ rPc = "start"
  /\ rCtx' = "ok"
  /\ IF rHasMapUrl
     THEN /\ rPc' = "map"
          /\ rDraws' = headDraws
          /\ rFetches' = <<mapUrl>>
          /\ UNCHANGED rI
     ELSE AfterMap(Append(headDraws, Draw("mapUnavailableText", -1, NoRect)))
  /\ UNCHANGED <<rPhotoUrls, rHasMapUrl, rNotes, rOutcomes, rBlob>>
  /\ RecapOnly

\* try { mapImg = await fetchImageBitmap(mapUrl); drawRoundedImage(...) }
\* catch { "Map failed to load" }, then on to the first photo request.
MapFetched ==
  /\ rPc = "map"
  /\ \E o \in FetchOutcomes :
       AfterMap(Append(rDraws,
                       IF o = "ok" THEN Draw("mapImage", -1, mapRect)
                       ELSE Draw("mapFailedText", -1, NoRect)))
  /\ UNCHANGED <<rPhotoUrls, rHasMapUrl, rNotes, rCtx, rOutcomes, rBlob>>
  /\ RecapOnly

\* One turn of the photo loop: the fetch of urls[i] settles, the photo or the
\* fallback box is drawn in the cell of i, and the loop goes on.
PhotoFetched ==
  /\ rPc = "photos"
  /\ \E o \in FetchOutcomes :
       LET n == urlsLength(rPhotoUrls)
           next == loopAfter(n, rI, o = "ok")
       IN /\ rOutcomes' = Append(rOutcomes, o = "ok")
          /\ rDraws' = Append(rDraws,
                              IF o = "ok" THEN Draw("photo", rI, cellRect(n, rI))
                              ELSE Draw("fallbackBox", -1, cellRect(n, rI)))
          /\ rPc' = next
          /\ rI' = nextIndex(rI, o = "ok")
          /\ rFetches' = IF next = "photos"
                         THEN Append(rFetches, nextIndex(rI, o = "ok"))
                         ELSE rFetches
  /\ UNCHANGED <<rPhotoUrls, rHasMapUrl, rNotes, rCtx, rBlob>>
  /\ RecapOnly

\* canvas.toBlob((b) => (b ? resolve(b) : reject(...)), "image/png")
ExportDone ==
  /\ rPc = "export"
  /\ \E b \in {"blob", "null"} :
       /\ rBlob' = b
       /\ rPc' = IF b = "blob" THEN "resolved" ELSE "rejected"
  /\ UNCHANGED <<rPhotoUrls, rHasMapUrl, rNotes, rCtx, rI, rFetches, rOutcomes, rDraws>>
  /\ RecapOnly

\* ------------------------------------------------------------- API routes

\* A value that may be null: a missing search parameter, a missing header.
Null == [given |-> FALSE, value |-> ""]
Str(v) == [given |-> TRUE, value |-> v]

\* !v on a string or null: null and the empty string are falsy.
Falsy(p) == ~p.given \/ p.value = ""

\* The thrown error of a handler is answered by the framework with a 500.
\* What a handler's upstream fetch came to.
Got(kind) == [kind |-> kind]

NoResp == [status |-> 0]
FrameworkError == [status |-> 500]

\* ------------------------------------------------- API routes: media proxy

AllowedPrefix == "https://firebasestorage.googleapis.com/"

\* str.includes(sub)
includes(str, sub) ==
  \E k \in 1..(Len(str) - Len(sub) + 1) : SubSeq(str, k, k + Len(sub) - 1) = sub

\* str.startsWith(prefix)
startsWith(str, prefix) ==
  Len(str) >= Len(prefix) /\ SubSeq(str, 1, Len(prefix)) = prefix

\* url parameters on the storage host: the prefix alone or followed by a path.
AllowedUrls ==
  {AllowedPrefix \o path : path \in {"", "v0/b/walks/o/a.jpg?alt=media", "v0/b/walks/o/b.mp4"}}

\* url parameters that do not begin with the prefix: empty, another scheme,
\* the host without the slash, the host as a subdomain label of another
\* host, the prefix inside the query of another host, a different case.
BlockedUrls ==
  {"",
   "http://firebasestorage.googleapis.com/v0/b/walks/o/a.jpg",
   "https://firebasestorage.googleapis.com",
   "https://firebasestorage.googleapis.com.evil.example/a.jpg",
   "https://evil.example/?u=https://firebasestorage.googleapis.com/a.jpg",
   "HTTPS://firebasestorage.googleapis.com/a.jpg",
   "http://169.254.169.254/latest/meta-data"}

ProxyParams == {Null} \cup {Str(u) : u \in AllowedUrls \cup BlockedUrls}

\* Upstream Content-Type headers: none, empty, two media types.
ContentTypes == {Null, Str(""), Str("image/jpeg"), Str("video/mp4")}

\* r.headers.get("content-type") || "application/octet-stream"
contentTypeOf(header) ==
  IF Falsy(header) THEN "application/octet-stream" ELSE header.value

ProxyStart ==
  /\ pUrl \in ProxyParams
  /\ pPc = "request"
  /\ pUpstream = <<>>
  /\ pGot = Got("none")
  /\ pResp = NoResp

\* if (!url) return 400
ProxyMissingUrl ==
  /\ pPc = "request"
  /\ Falsy(pUrl)
  /\ pResp' = [status |-> 400]
  /\ pPc' = "done"
  /\ UNCHANGED <<pUrl, pUpstream, pGot>>
  /\ ProxyOnly

\* if (!url.startsWith("https://firebasestorage.googleapis.com/")) return 403
ProxyBlockedHost ==
  /\ pPc = "request"
  /\ ~Falsy(pUrl)
  /\ ~startsWith(pUrl.value, AllowedPrefix)
  /\ pResp' = [status |-> 403]
  /\ pPc' = "done"
  /\ UNCHANGED <<pUrl, pUpstream, pGot>>
  /\ ProxyOnly

\* const r = await fetch(url, { cache: "no-store" }): the request goes out.
ProxyFetch ==
  /\ pPc = "request"
  /\ ~Falsy(pUrl)
  /\ startsWith(pUrl.value, AllowedPrefix)
  /\ pUpstream' = Append(pUpstream, pUrl.value)
  /\ pPc' = "fetching"
  /\ UNCHANGED <<pUrl, pGot, pResp>>
  /\ ProxyOnly

\* fetch rejects (no connection, DNS, TLS): nothing catches it.
ProxyFetchThrows ==
  /\ pPc = "fetching"
  /\ pGot' = Got("threw")
  /\ pResp' = FrameworkError
  /\ pPc' = "threw"
  /\ UNCHANGED <<pUrl, pUpstream>>
  /\ ProxyOnly

\* if (!r.ok) return 502 with the upstream status
ProxyUpstreamNotOk ==
  /\ pPc = "fetching"
  /\ \E st \in {403, 404, 500} :
       pResp' = [status |-> 502, upstreamStatus |-> st]
  /\ pGot' = Got("notOk")
  /\ pPc' = "done"
  /\ UNCHANGED <<pUrl, pUpstream>>
  /\ ProxyOnly

\* r.ok: the body is read with r.arrayBuffer() and sent back; a body that
\* breaks off makes arrayBuffer reject, which nothing catches.
ProxyUpstreamOk ==
  /\ pPc = "fetching"
  /\ \E header \in ContentTypes, bytes \in {"bytesA", "bytesB"}, readOk \in BOOLEAN :
       IF readOk
       THEN /\ pGot' = [kind |-> "ok", header |-> header, bytes |-> bytes]
            /\ pResp' = [status |-> 200, contentType |-> contentTypeOf(header),
                         body |-> bytes]
            /\ pPc' = "done"
       ELSE /\ pGot' = Got("unread")
            /\ pResp' = FrameworkError
            /\ pPc' = "threw"
  /\ UNCHANGED <<pUrl, pUpstream>>
  /\ ProxyOnly

\* ---------------------------------------------------- API routes: weather

\* The mapping without its own text for thunderstorms with hail.
weatherCodeToSummaryNoHail(code) ==
  IF code = 0 THEN "Clear"
  ELSE IF code = 1 \/ code = 2 THEN "Partly cloudy"
  ELSE IF code = 3 THEN "Overcast"
  ELSE IF code = 45 \/ code = 48 THEN "Fog"
  ELSE IF code >= 51 /\ code <= 57 THEN "Drizzle"
  ELSE IF code >= 61 /\ code <= 67 THEN "Rain"
  ELSE IF code >= 71 /\ code <= 77 THEN "Snow"
  ELSE IF code >= 80 /\ code <= 82 THEN "Rain showers"
  ELSE IF code >= 85 /\ code <= 86 THEN "Snow showers"
  ELSE IF code >= 95 /\ code <= 99 THEN "Thunderstorm"
  ELSE "Weather"

weatherCodeToSummary(code) ==
  IF code = 0 THEN "Clear"
  ELSE IF code = 1 \/ code = 2 THEN "Partly cloudy"
  ELSE IF code = 3 THEN "Overcast"
  ELSE IF code = 45 \/ code = 48 THEN "Fog"
  ELSE IF code >= 51 /\ code <= 57 THEN "Drizzle"
  ELSE IF code >= 61 /\ code <= 67 THEN "Rain"
  ELSE IF code >= 71 /\ code <= 77 THEN "Snow"
  ELSE IF code >= 80 /\ code <= 82 THEN "Rain showers"
  ELSE IF code >= 85 /\ code <= 86 THEN "Snow showers"
  ELSE IF code = 95 THEN "Thunderstorm"
  ELSE IF code = 96 \/ code = 99 THEN "Thunderstorm (hail)"
  ELSE "Weather"

\* Math.round(cToF(tempC)) with tempC given in tenths of a degree:
\* c * (9 / 5) + 32 is (18 t + 3200) / 100, and Math.round rounds halves up.
roundedFahrenheit(tenthsC) == (18 * tenthsC + 3250) \div 100

\* A JSON value that is a number, or is not (missing, null, a string).
Num(n) == [num |-> TRUE, v |-> n]
NotNum == [num |-> FALSE, v |-> 0]

\* lat and lng search parameters: missing, empty, a coordinate, not a number.
CoordParams == {Null, Str(""), Str("38.9"), Str("abc")}

\* Parsed upstream bodies: data.current missing, or present with each field
\* a number or not.  Temperatures are in tenths of a degree Celsius.
WeatherBodies ==
  {[current |-> FALSE, temp |-> NotNum, code |-> NotNum]}
  \cup [current : {TRUE},
        temp : {NotNum} \cup {Num(t) : t \in {-105, 25, 215}},
        code : {NotNum} \cup {Num(c) : c \in {0, 2, 3, 48, 57, 61, 77, 80, 86, 95, 99, 4, 100}}]

WeatherStart ==
  /\ xLat \in CoordParams
  /\ xLng \in CoordParams
  /\ xPc = "request"
  /\ xUpstream = <<>>
  /\ xGot = Got("none")
  /\ xResp = NoResp

\* if (!lat || !lng) return 400
WeatherMissingParam ==
  /\ xPc = "request"
  /\ (Falsy(xLat) \/ Falsy(xLng))
  /\ xResp' = [status |-> 400]
  /\ xPc' = "done"
  /\ UNCHANGED <<xLat, xLng, xUpstream, xGot>>
  /\ WeatherOnly

\* const r = await fetch(url, { cache: "no-store" }): the request goes out.
WeatherFetch ==
  /\ xPc = "request"
  /\ ~(Falsy(xLat) \/ Falsy(xLng))
  /\ xUpstream' = Append(xUpstream, [lat |-> xLat.value, lng |-> xLng.value])
  /\ xPc' = "fetching"
  /\ UNCHANGED <<xLat, xLng, xGot, xResp>>
  /\ WeatherOnly

\* fetch rejects: nothing catches it.
WeatherFetchThrows ==
  /\ xPc = "fetching"
  /\ xGot' = Got("threw")
  /\ xResp' = FrameworkError
  /\ xPc' = "threw"
  /\ UNCHANGED <<xLat, xLng, xUpstream>>
  /\ WeatherOnly

\* if (!r.ok) return 502
WeatherUpstreamNotOk ==
  /\ xPc = "fetching"
  /\ xGot' = Got("notOk")
  /\ xResp' = [status |-> 502]
  /\ xPc' = "done"
  /\ UNCHANGED <<xLat, xLng, xUpstream>>
  /\ WeatherOnly

\* r.ok but the body is not JSON: await r.json() rejects, nothing catches it.
WeatherBodyNotJson ==
  /\ xPc = "fetching"
  /\ xGot' = Got("notJson")
  /\ xResp' = FrameworkError
  /\ xPc' = "threw"
  /\ UNCHANGED <<xLat, xLng, xUpstream>>
  /\ WeatherOnly

\* r.ok with a JSON body: 502 unless both fields are numbers, else the 200
\* (NextResponse.json's default status) with the converted values.
WeatherUpstreamJson ==
  /\ xPc = "fetching"
  /\ \E data \in WeatherBodies :
       /\ xGot' = [kind |-> "json", data |-> data]
       /\ xResp' = IF ~data.temp.num \/ ~data.code.num
                   THEN [status |-> 502]
                   ELSE [status |-> 200,
                         temperatureF |-> roundedFahrenheit(data.temp.v),
                         summary |-> weatherCodeToSummary(data.code.v)]
  /\ xPc' = "done"
  /\ UNCHANGED <<xLat, xLng, xUpstream>>
  /\ WeatherOnly

\* ------------------------------------------------------ home page: publishWalk

\* The fields createWalk writes: those publishWalk passes, and createdAt.
WalkFields ==
  {"dogs", "durationMinutes", "distanceMiles", "tempF", "weatherSummary", "notes",
   "routePoints", "media", "createdAt"}

\* addDoc(collection(db, "walks"), { ...data, createdAt: serverTimestamp() })
newWalkDoc == [fields |-> WalkFields, media |-> <<>>]

\* The media reference uploadMedia returns for a file uploaded for a walk.
mediaRef(walk, file) == [walk |-> walk, file |-> file]

\* The references collected in the opposite order: each new one put first.
unshift(arr, x) == <<x>> \o arr

\* uploadedMedia.push(media)
push(arr, x) == Append(arr, x)

PublishStart ==
  /\ files \in 0..MaxFiles
  /\ publishing = FALSE
  /\ pubPc = "idle"
  /\ walkId = 0
  /\ fileIdx = 0
  /\ uploadedMedia = <<>>
  /\ walks = <<>>
  /\ objects = {}
  /\ alerts = 0
  /\ attempts = 0

\* A catch block that shows the alert but leaves the publishing flag set.
PublishCatchKeepsFlag ==
  /\ alerts' = alerts + 1
  /\ publishing' = publishing
  /\ pubPc' = "idle"

\* catch (err) { console.error(err); alert(...); setPublishing(false); }
PublishCatch ==
  /\ alerts' = alerts + 1
  /\ publishing' = FALSE
  /\ pubPc' = "idle"

\* publishWalk called while a publish is in flight: if (publishing) return;
PublishIgnored ==
  /\ publishing
  /\ pubPc # "navigated"
  /\ UNCHANGED publishVars
  /\ PublishOnly

\* publishWalk called when none is in flight: setPublishing(true), and
\* createWalk is called.
PublishBegin ==
  /\ ~publishing
  /\ pubPc = "idle"
  /\ attempts < MaxAttempts
  /\ attempts' = attempts + 1
  /\ publishing' = TRUE
  /\ pubPc' = "creating"
  /\ walkId' = 0
  /\ fileIdx' = 0
  /\ uploadedMedia' = <<>>
  /\ UNCHANGED <<files, walks, objects, alerts>>
  /\ PublishOnly

\* createWalk resolves: the document exists, with media = [].  With no file
\* selected the loop and the update are skipped and router.push is called.
CreateWalkOk ==
  /\ pubPc = "creating"
  /\ walks' = Append(walks, newWalkDoc)
  /\ walkId' = Len(walks) + 1
  /\ IF files = 0
     THEN pubPc' = "navigated" /\ UNCHANGED fileIdx
     ELSE pubPc' = "uploadBytes" /\ fileIdx' = 1
  /\ UNCHANGED <<files, publishing, uploadedMedia, objects, alerts, attempts>>
  /\ PublishOnly

\* createWalk rejects: no document was written.
CreateWalkFails ==
  /\ pubPc = "creating"
  /\ PublishCatch
  /\ UNCHANGED <<files, walkId, fileIdx, uploadedMedia, walks, objects, attempts>>
  /\ PublishOnly

\* uploadMedia: await uploadBytes(fileRef, file, ...) resolves.
UploadBytesOk ==
  /\ pubPc = "uploadBytes"
  /\ objects' = objects \cup {mediaRef(walkId, fileIdx)}
  /\ pubPc' = "getUrl"
  /\ UNCHANGED <<files, publishing, walkId, fileIdx, uploadedMedia, walks, alerts,
                 attempts>>
  /\ PublishOnly

\* uploadMedia: uploadBytes rejects.
UploadBytesFails ==
  /\ pubPc = "uploadBytes"
  /\ PublishCatch
  /\ UNCHANGED <<files, walkId, fileIdx, uploadedMedia, walks, objects, attempts>>
  /\ PublishOnly

\* uploadMedia: await getDownloadURL(fileRef) resolves, the reference is
\* pushed, and the loop goes to the next file or on to the update.
GetUrlOk ==
  /\ pubPc = "getUrl"
  /\ uploadedMedia' = push(uploadedMedia, mediaRef(walkId, fileIdx))
  /\ IF fileIdx < files
     THEN pubPc' = "uploadBytes" /\ fileIdx' = fileIdx + 1
     ELSE pubPc' = "updating" /\ UNCHANGED fileIdx
  /\ UNCHANGED <<files, publishing, walkId, walks, objects, alerts, attempts>>
  /\ PublishOnly

\* uploadMedia: getDownloadURL rejects.
GetUrlFails ==
  /\ pubPc = "getUrl"
  /\ PublishCatch
  /\ UNCHANGED <<files, walkId, fileIdx, uploadedMedia, walks, objects, attempts>>
  /\ PublishOnly

\* updateDoc(doc(db, "walks", walkId), { media: uploadedMedia }) resolves,
\* then router.push: the page is left, publishing still true.
UpdateDocOk ==
  /\ pubPc = "updating"
  /\ walks' = [walks EXCEPT ![walkId].media = uploadedMedia]
  /\ pubPc' = "navigated"
  /\ UNCHANGED <<files, publishing, walkId, fileIdx, uploadedMedia, objects, alerts,
                 attempts>>
  /\ PublishOnly

\* updateDoc rejects.
UpdateDocFails ==
  /\ pubPc = "updating"
  /\ PublishCatch
  /\ UNCHANGED <<files, walkId, fileIdx, uploadedMedia, walks, objects, attempts>>
  /\ PublishOnly

\* ------------------------------------------------- lib/uploadMedia: the names

\* The characters a file name is made of here: a letter, a digit, the
\* underscore, the dot, the hyphen, the space and the slash.
NameChars == {"a", "7", "_", ".", "-", " ", "/"}

\* The characters the class [\w.\-] matches.
KeptChars == {"a", "7", "_", "f", "i", "l", "e", ".", "-"}

RECURSIVE replaceRuns(_, _)
\* s.replace(/[^\w.\-]+/g, "_") on the rest s of the string: inRun tells that
\* the character before s was part of the run being replaced.
replaceRuns(s, inRun) ==
  IF s = <<>> THEN <<>>
  ELSE IF Head(s) \in KeptChars THEN <<Head(s)>> \o replaceRuns(Tail(s), FALSE)
  ELSE IF inRun THEN replaceRuns(Tail(s), TRUE)
  ELSE <<"_">> \o replaceRuns(Tail(s), TRUE)

\* (name || "file").replace(/[^\w.\-]+/g, "_")
safeFileName(name) ==
  replaceRuns(IF name = <<>> THEN <<"f", "i", "l", "e">> ELSE name, FALSE)

\* crypto.randomUUID(): hexadecimal digits and hyphens.
Uuid == <<"7", "a", "-", "a", "7">>

\* The filename of the storage path, `${id}-${safeFileName(file.name)}`.
storageFilename(name) == Uuid \o <<"-">> \o safeFileName(name)

\* What uploadMedia returns for a file of this name: the name of the
\* reference is file.name || filename, and its path ends in filename.
uploadMedia(name) ==
  [name |-> IF name # <<>> THEN name ELSE storageFilename(name),
   filename |-> storageFilename(name)]

NoRef == [name |-> <<>>, filename |-> <<>>]

\* file.type: empty when the browser does not know the type.
FileTypes == {"", "image/png", "video/mp4", "video/quicktime", "application/pdf"}

\* file.type?.startsWith("video/") ? "video" : "image"
inferType(fileType) == IF startsWith(fileType, "video/") THEN "video" ELSE "image"

\* The contentType option of uploadBytes:
\* file.type || (type === "video" ? "video/mp4" : "image/jpeg")
uploadContentType(fileType) ==
  IF fileType # "" THEN fileType
  ELSE IF inferType(fileType) = "video" THEN "video/mp4" ELSE "image/jpeg"

\* The type and contentType of the returned reference:
\* { type, contentType: file.type || "" }
mediaMeta(fileType) ==
  [type |-> inferType(fileType),
   contentType |-> IF fileType # "" THEN fileType ELSE ""]

NoMeta == [type |-> "image", contentType |-> ""]

UploadStart ==
  /\ \E n \in 0..MaxNameLen : uName \in [1..n -> NameChars]
  /\ uType \in FileTypes
  /\ uRef = NoRef
  /\ uStored = ""
  /\ uMeta = NoMeta
  /\ uDone = FALSE

\* One uploadMedia call that resolves.
UploadCall ==
  /\ ~uDone
  /\ uStored' = uploadContentType(uType)
  /\ uRef' = uploadMedia(uName)
  /\ uMeta' = mediaMeta(uType)
  /\ uDone' = TRUE
  /\ UNCHANGED <<uName, uType>>
  /\ UploadOnly

\* ------------------------------------------- lib/recapImage: drawRoundedImage

(***************************************************************************)
(* The numbers of drawRoundedImage are quotients of the integer sizes, so  *)
(* they are kept as fractions [n, d] with d > 0 and compared exactly.      *)
(***************************************************************************)
RInt(i) == [n |-> i, d |-> 1]
RAdd(a, b) == [n |-> a.n * b.d + b.n * a.d, d |-> a.d * b.d]
RSub(a, b) == [n |-> a.n * b.d - b.n * a.d, d |-> a.d * b.d]
RMul(a, b) == [n |-> a.n * b.n, d |-> a.d * b.d]
\* a / b for b > 0
RDiv(a, b) == [n |-> a.n * b.d, d |-> a.d * b.n]
RHalf(a) == [n |-> a.n, d |-> a.d * 2]
RGt(a, b) == a.n * b.d > b.n * a.d
REq(a, b) == a.n * b.d = b.n * a.d

\* The test with its two sides exchanged: the image is narrower than the box.
narrowerThanBox(imgRatio, boxRatio) == RGt(boxRatio, imgRatio)

\* if (imgRatio > boxRatio)
widerThanBox(imgRatio, boxRatio) == RGt(imgRatio, boxRatio)

\* The arguments drawRoundedImage passes to ctx.drawImage.
drawRoundedImage(img, x, y, w, h) ==
  LET imgRatio == RDiv(RInt(img.width), RInt(img.height))
      boxRatio == RDiv(RInt(w), RInt(h))
  IN  IF widerThanBox(imgRatio, boxRatio)
      THEN LET drawW == RMul(RInt(h), imgRatio)
           IN  [dx |-> RSub(RInt(x), RHalf(RSub(drawW, RInt(w)))),
                dy |-> RInt(y),
                drawW |-> drawW,
                drawH |-> RInt(h)]
      ELSE LET drawH == RDiv(RInt(w), imgRatio)
           IN  [dx |-> RInt(x),
                dy |-> RSub(RInt(y), RHalf(RSub(drawH, RInt(h)))),
                drawW |-> RInt(w),
                drawH |-> drawH]

\* The corners a target box is placed at.
BoxOrigins == {[x |-> 0, y |-> 0], [x |-> 48, y |-> 220]}

NotDrawn == [dx |-> RInt(0), dy |-> RInt(0), drawW |-> RInt(0), drawH |-> RInt(0)]

\* A decoded image and a target box, both with positive integer dimensions.
FitStart ==
  /\ fImg \in [width : 1..MaxDim, height : 1..MaxDim]
  /\ \E o \in BoxOrigins :
       fBox \in [x : {o.x}, y : {o.y}, w : 1..MaxDim, h : 1..MaxDim]
  /\ fDrawn = NotDrawn
  /\ fDone = FALSE

\* One drawRoundedImage call.
FitCall ==
  /\ ~fDone
  /\ fDrawn' = drawRoundedImage(fImg, fBox.x, fBox.y, fBox.w, fBox.h)
  /\ fDone' = TRUE
  /\ UNCHANGED <<fImg, fBox>>
  /\ FitOnly

\* ------------------------------------------------ the route drawer: WalkMap

RECURSIVE routeLoop(_, _, _)
\* for (let i = 1; i < points.length; i++) sum += haversineMeters(...), with
\* the array indexed from 1: the loop is at the pair (points[i - 1], points[i]).
routeLoop(points, i, sum) ==
  IF i > Len(points) THEN sum
  ELSE routeLoop(points, i + 1, sum + haversineMeters(points[i - 1], points[i]))

\* The sum with the first leg left out.
routeDistanceSkippingFirstLeg(points) ==
  IF Len(points) < 2 THEN 0 ELSE routeLoop(points, 3, 0)

routeDistanceMeters(points) ==
  IF Len(points) < 2 THEN 0 ELSE routeLoop(points, 2, 0)

\* Math.round(metersToMiles(meters) * 100), the miles value in hundredths:
\* meters / 1609.344 * 100 is meters * 100000 / 1609344, and Math.round
\* rounds halves up.
roundedMiles(meters) == (2 * meters * 100000 + 1609344) \div (2 * 1609344)

\* The latitudes a pointer event unprojects to, in metres of arc.
DrawerLats == {0, 1, 9, 1609}

\* [...prev, { lat: ll.lat, lng: ll.lng }]: a new object at the end.
withNewPoint(prev, lat) == Append(prev, [id |-> Len(prev) + 1, lat |-> lat])

\* The objects of an array of distinct objects, named by their positions.
byPosition(points) == [i \in DOMAIN points |-> [id |-> i, lat |-> points[i].lat]]

\* setPoints((prev) => thinPoints([...prev, { lat, lng }], 2))
drawnTo(prev, lat) == byPosition(thinPoints(withNewPoint(prev, lat), 2))

NotReported == [called |-> FALSE, points |-> <<>>, miles |-> 0]

\* The component has mounted: no point, and the effects of the first render
\* have yet to run.
DrawerStart ==
  /\ dMap \in BOOLEAN
  /\ dPoints = <<>>
  /\ dIsDrawing = FALSE
  /\ dPending = TRUE
  /\ dReported = NotReported

\* handlePointerDown: nothing without a map or for another mouse button.
PointerDown ==
  /\ Len(dPoints) < MaxRoute
  /\ \E lat \in DrawerLats, leftButton \in BOOLEAN :
       IF ~dMap \/ ~leftButton
       THEN UNCHANGED <<dPoints, dIsDrawing, dPending>>
       ELSE /\ dIsDrawing' = TRUE
            /\ dPoints' = drawnTo(dPoints, lat)
            /\ dPending' = TRUE
  /\ UNCHANGED <<dMap, dReported>>
  /\ DrawerOnly

\* handlePointerMove: nothing unless drawing, with a map.
PointerMove ==
  /\ Len(dPoints) < MaxRoute
  /\ \E lat \in DrawerLats :
       IF ~dIsDrawing \/ ~dMap
       THEN UNCHANGED <<dPoints, dPending>>
       ELSE /\ dPoints' = drawnTo(dPoints, lat)
            /\ dPending' = TRUE
  /\ UNCHANGED <<dMap, dIsDrawing, dReported>>
  /\ DrawerOnly

\* handlePointerUp
PointerUp ==
  /\ dIsDrawing' = FALSE
  /\ UNCHANGED <<dMap, dPoints, dPending, dReported>>
  /\ DrawerOnly

\* undoLast, behind a button that is disabled when there is no point.
Undo ==
  /\ dPoints # <<>>
  /\ dPoints' = SubSeq(dPoints, 1, Len(dPoints) - 1)
  /\ dPending' = TRUE
  /\ UNCHANGED <<dMap, dIsDrawing, dReported>>
  /\ DrawerOnly

\* clearRoute, behind a button that is disabled when there is no point.
Clear ==
  /\ dPoints # <<>>
  /\ dPoints' = <<>>
  /\ dPending' = TRUE
  /\ UNCHANGED <<dMap, dIsDrawing, dReported>>
  /\ DrawerOnly

\* The effect on [points] runs for the rendered points.
RunEffects ==
  /\ dPending
  /\ dReported' = [called |-> TRUE, points |-> dPoints,
                   miles |-> roundedMiles(routeDistanceMeters(dPoints))]
  /\ dPending' = FALSE
  /\ UNCHANGED <<dMap, dPoints, dIsDrawing>>
  /\ DrawerOnly

\* ----------------------------------------------------------- computeEarned

\* round(minutes / 30) replaced by floor(minutes / 30).
computeEarnedFloor(durationMinutes) ==
  IF durationMinutes.kind # "finite" \/ durationMinutes.v <= 0 THEN 0
  ELSE (durationMinutes.v \div 30) * 20

\* The copy in walk/[id]/recap-image/route.tsx.  Math.round(v / 30) is
\* floor(v / 30 + 1/2), that is (2 v + 30) \div 60.
computeEarned(durationMinutes) ==
  IF durationMinutes.kind # "finite" \/ durationMinutes.v <= 0 THEN 0
  ELSE ((2 * durationMinutes.v + 30) \div 60) * 20

\* The copy in the walk page's client component.
computeEarnedClient(durationMinutes) ==
  IF durationMinutes.kind # "finite" \/ durationMinutes.v <= 0 THEN 0
  ELSE ((2 * durationMinutes.v + 30) \div 60) * 20

\* walk.durationMinutes: a number of minutes, or NaN, or an infinity.
Durations ==
  [kind : {"finite"}, v : (0 - 10)..MaxMinutes]
  \cup [kind : {"NaN", "Infinity", "-Infinity"}, v : {0}]

EarnedStart ==
  /\ eDuration \in Durations
  /\ eRoute = 0
  /\ ePage = 0
  /\ eDone = FALSE

\* Both copies are called with the walk's duration.
EarnedCall ==
  /\ ~eDone
  /\ eRoute' = computeEarned(eDuration)
  /\ ePage' = computeEarnedClient(eDuration)
  /\ eDone' = TRUE
  /\ UNCHANGED eDuration
  /\ EarnedOnly

\* --------------------------------------- recap-image route: the photo slots

\* The media of a stored walk: entry k is an image or a video, and its url
\* (a non-empty string, as uploadMedia writes it) is given by the number k;
\* 0 stands for a url that is not a string, which no stored entry has.
MediaLists(n) ==
  {[k \in 1..n |-> [type |-> t[k], url |-> k]] : t \in [1..n -> {"image", "video"}]}

\* A filter that lets every media entry through.
isAnyMedia(m) == TRUE

\* (m) => m.type === "image" && typeof m.url === "string"
isPhoto(m) == m.type = "image" /\ m.url # 0

RECURSIVE filterPhotoUrls(_)
\* media.filter(...).map((m) => m.url)
filterPhotoUrls(media) ==
  IF media = <<>> THEN <<>>
  ELSE (IF isPhoto(Head(media)) THEN <<Head(media).url>> ELSE <<>>)
       \o filterPhotoUrls(Tail(media))

\* fetchWalk's photoUrls: the filtered urls, .slice(0, 6)
photoUrlsOf(media) ==
  LET urls == filterPhotoUrls(media)
  IN  SubSeq(urls, 1, IF Len(urls) < 6 THEN Len(urls) ELSE 6)

\* Array.from({ length: 6 }).map((_, i) => ...): slot i (at position i + 1)
\* holds an img of walk.photoUrls[i], or nothing (0) when that is undefined.
photoSlots(photoUrls) ==
  [k \in 1..6 |-> IF k <= Len(photoUrls) THEN photoUrls[k] ELSE 0]

SlotsStart ==
  /\ \E n \in 0..MaxMedia : sMedia \in MediaLists(n)
  /\ sSlots = <<>>
  /\ sDone = FALSE

\* GET for a walk that fetchWalk found: the response is rendered.
SlotsRender ==
  /\ ~sDone
  /\ sSlots' = photoSlots(photoUrlsOf(sMedia))
  /\ sDone' = TRUE
  /\ UNCHANGED sMedia
  /\ SlotsOnly

\* ------------------------------------------- dashboard: pay week and total

\* Local wall-clock time: an instant is the number of minutes since local
\* midnight of day 0, and day 0 is a Sunday (getDay() = 0).
minutesPerDay == 24 * 60
at(day, minute) == day * minutesPerDay + minute

\* d.getDay(): Sunday = 0 ... Saturday = 6
getDay(t) == (t \div minutesPerDay) % 7

\* d.setHours(0, 0, 0, 0)
setHoursZero(t) == (t \div minutesPerDay) * minutesPerDay

\* d.setDate(d.getDate() + n): n calendar days later, same time of day
addDays(t, n) == t + n * minutesPerDay

\* The day difference without the wrap into 0..6.
daysSinceFridayUnwrapped(day) == day - 5

\* const daysSinceFriday = (day - 5 + 7) % 7
daysSinceFriday(day) == (day - 5 + 7) % 7

startOfPayWeek(now) ==
  LET d == setHoursZero(now)
  IN  addDays(d, 0 - daysSinceFriday(getDay(d)))

endOfPayWeek(start) == addDays(start, 7)

\* What a walk document holds as createdAt: nothing, a value without a toDate
\* function, a value whose toDate throws, or a Timestamp of an instant.
NoCreatedAt == [kind |-> "missing", at |-> 0]
PlainCreatedAt == [kind |-> "plain", at |-> 0]
ThrowingCreatedAt == [kind |-> "throws", at |-> 0]
Timestamp(t) == [kind |-> "timestamp", at |-> t]

\* toDateSafe's results: null, or a Date.
NoDate == [ok |-> FALSE, at |-> 0]
DateAt(t) == [ok |-> TRUE, at |-> t]

toDateSafe(ts) ==
  IF ts.kind = "missing" THEN NoDate
  ELSE IF ts.kind = "timestamp" THEN DateAt(ts.at)
  ELSE NoDate

\* A pay-week test that also takes the instant payEnd itself.
inPayWeekInclusive(w, payStart, payEnd) ==
  LET d == toDateSafe(w.createdAt)
  IN  IF ~d.ok THEN FALSE ELSE d.at >= payStart /\ d.at <= payEnd

\* The filter of payWeekWalks.
inPayWeek(w, payStart, payEnd) ==
  LET d == toDateSafe(w.createdAt)
  IN  IF ~d.ok THEN FALSE ELSE d.at >= payStart /\ d.at < payEnd

RECURSIVE payWeekWalks(_, _, _)
payWeekWalks(list, payStart, payEnd) ==
  IF list = <<>> THEN <<>>
  ELSE (IF inPayWeek(Head(list), payStart, payEnd) THEN <<Head(list)>> ELSE <<>>)
       \o payWeekWalks(Tail(list), payStart, payEnd)

\* Number(w.amountDue) || 0
amountOrZero(amountDue) == IF amountDue.num THEN amountDue.v ELSE 0

RECURSIVE reduceTotal(_, _)
\* payWeekWalks.reduce((sum, w) => sum + (Number(w.amountDue) || 0), sum)
reduceTotal(list, sum) ==
  IF list = <<>> THEN sum
  ELSE reduceTotal(Tail(list), sum + amountOrZero(Head(list).amountDue))

payTotal(list) == reduceTotal(list, 0)

\* The instants the dashboard is opened at: every day of one week, at its
\* first and last minute.
NowSet == {at(day, minute) : day \in 7..13, minute \in {0, minutesPerDay - 1}}

\* Creation stamps around both pay weeks those instants fall in.
PayStamps ==
  {NoCreatedAt, PlainCreatedAt, ThrowingCreatedAt,
   Timestamp(at(4, minutesPerDay - 1)), Timestamp(at(5, 0)),
   Timestamp(at(11, minutesPerDay - 1)), Timestamp(at(12, 0)),
   Timestamp(at(19, 0))}

DueAmounts == {NotNum, Num(20), Num(35)}

WalkList(ts, am) == [i \in DOMAIN ts |-> [createdAt |-> ts[i], amountDue |-> am[i]]]

PayStart ==
  /\ yNow \in NowSet
  /\ \E n \in 0..MaxWalks :
       \E ts \in [1..n -> PayStamps] :
         \E am \in [1..n -> DueAmounts] : yWalks = WalkList(ts, am)
  /\ yStart = 0
  /\ yEnd = 0
  /\ yTotal = 0
  /\ yDone = FALSE

\* The dashboard rendered with its walks loaded.
PayRender ==
  /\ ~yDone
  /\ yStart' = startOfPayWeek(yNow)
  /\ yEnd' = endOfPayWeek(startOfPayWeek(yNow))
  /\ yTotal' = payTotal(payWeekWalks(yWalks, startOfPayWeek(yNow),
                                     endOfPayWeek(startOfPayWeek(yNow))))
  /\ yDone' = TRUE
  /\ UNCHANGED <<yNow, yWalks>>
  /\ PayOnly

\* ------------------------------------------------- dashboard: the calendar

\* A day of the calendar is its number; day 0 is a Sunday.
dayOfWeek(day) == day % 7

\* The padding that runs one day past the Saturday.
endPadPastSaturday(lastDay) == 7 - dayOfWeek(lastDay)

\* 6 - last.getDay()
endPad(lastDay) == 6 - dayOfWeek(lastDay)

RECURSIVE daysFrom(_, _)
\* while (cur <= end) { days.push(new Date(cur)); cur.setDate(cur.getDate() + 1) }
daysFrom(cur, end) ==
  IF cur <= end THEN <<cur>> \o daysFrom(cur + 1, end) ELSE <<>>

\* The day list of the month whose first day is first and which has length days.
calendarDays(first, length) ==
  LET last == first + length - 1
      start == first - dayOfWeek(first)
      end == last + endPad(last)
  IN  daysFrom(start, end)

\* dayKey of a Date: its calendar day
dayKey(t) == t \div minutesPerDay

NoAggregate == [count |-> 0, total |-> 0]

\* byDay.get(k) || { count: 0, total: 0 }
getOrZero(byDay, k) == IF k \in DOMAIN byDay THEN byDay[k] ELSE NoAggregate

\* cur.count += 1; cur.total += Number(w.amountDue) || 0; byDay.set(k, cur)
setDay(byDay, k, w) ==
  [j \in DOMAIN byDay \cup {k} |->
     IF j = k
     THEN [count |-> getOrZero(byDay, k).count + 1,
           total |-> getOrZero(byDay, k).total + amountOrZero(w.amountDue)]
     ELSE byDay[j]]

RECURSIVE aggregateByDay(_, _)
\* for (const w of walks) { ... if (!d) continue; ... }
aggregateByDay(list, byDay) ==
  IF list = <<>> THEN byDay
  ELSE LET d == toDateSafe(Head(list).createdAt)
       IN  aggregateByDay(Tail(list),
             IF ~d.ok THEN byDay ELSE setDay(byDay, dayKey(d.at), Head(list)))

\* The empty Map.
EmptyMap == [j \in {} |-> NoAggregate]

\* The selected months: any weekday as the first day, any month length.
MonthSet == [first : 7..13, length : 28..31]

CalStamps ==
  {NoCreatedAt, PlainCreatedAt, ThrowingCreatedAt,
   Timestamp(at(9, 0)), Timestamp(at(9, minutesPerDay - 1)),
   Timestamp(at(10, 0))}

CalAmounts == {NotNum, Num(20)}

CalStart ==
  /\ kMonth \in MonthSet
  /\ \E n \in 0..MaxWalks :
       \E ts \in [1..n -> CalStamps] :
         \E am \in [1..n -> CalAmounts] : kWalks = WalkList(ts, am)
  /\ kDays = <<>>
  /\ kByDay = EmptyMap
  /\ kDone = FALSE

\* The calendar memo computed for the selected month and the loaded walks.
CalendarRender ==
  /\ ~kDone
  /\ kDays' = calendarDays(kMonth.first, kMonth.length)
  /\ kByDay' = aggregateByDay(kWalks, EmptyMap)
  /\ kDone' = TRUE
  /\ UNCHANGED <<kMonth, kWalks>>
  /\ CalOnly

\* ------------------------------------- walk viewer and dashboard: the loads

\* walkId is 0 when empty, else the id of a walk document; walk is 0 when
\* null, else the id of the loaded document.
WalkIds == 0..2

\* err: the empty message, or a message with the number of the load that set it.
NoErr == [msg |-> "", load |-> 0]
ErrOf(msg, n) == [msg |-> msg, load |-> n]

\* A guard that lets a stale load write.
mayWriteAlways(alive) == TRUE

\* if (!alive) return;  /  if (alive) setX(...)
mayWrite(alive) == alive

\* The effect's cleanup: alive = false in the closure of every earlier load.
cleanedUp(loads) == {[l EXCEPT !.alive = FALSE] : l \in loads}

\* The viewer mounted: the effect has run for the first walkId, and with a
\* non-empty walkId its load is at the await of getDoc.
ViewerStart ==
  /\ vMounted = TRUE
  /\ vWalkId \in WalkIds
  /\ vStarted = IF vWalkId = 0 THEN 0 ELSE 1
  /\ vLoads = IF vWalkId = 0 THEN {}
              ELSE {[n |-> 1, walkId |-> vWalkId, alive |-> TRUE]}
  /\ vWalk = 0
  /\ vErr = NoErr
  /\ vLoading = TRUE

\* walkId changes: the cleanup of the previous effect, then the effect again:
\* if (!walkId) return; let alive = true; load() up to its await.
ViewerWalkIdChanges ==
  /\ vMounted
  /\ vStarted < MaxLoads
  /\ \E w \in WalkIds \ {vWalkId} :
       /\ vWalkId' = w
       /\ IF w = 0
          THEN /\ vLoads' = cleanedUp(vLoads)
               /\ UNCHANGED <<vStarted, vErr, vLoading>>
          ELSE /\ vStarted' = vStarted + 1
               /\ vLoads' = cleanedUp(vLoads)
                              \cup {[n |-> vStarted + 1, walkId |-> w, alive |-> TRUE]}
               /\ vLoading' = TRUE
               /\ vErr' = NoErr
  /\ UNCHANGED <<vMounted, vWalk>>
  /\ ViewerOnly

\* The viewer is unmounted: the cleanup only.
ViewerUnmount ==
  /\ vMounted
  /\ vMounted' = FALSE
  /\ vLoads' = cleanedUp(vLoads)
  /\ UNCHANGED <<vWalkId, vStarted, vWalk, vErr, vLoading>>
  /\ ViewerOnly

\* getDoc resolves with an existing document.
ViewerLoadFound ==
  /\ \E l \in vLoads :
       /\ vLoads' = vLoads \ {l}
       /\ IF mayWrite(l.alive)
          THEN vWalk' = l.walkId /\ vLoading' = FALSE
          ELSE UNCHANGED <<vWalk, vLoading>>
  /\ UNCHANGED <<vMounted, vWalkId, vStarted, vErr>>
  /\ ViewerOnly

\* getDoc resolves without a document: throw new Error("Walk not found.")
ViewerLoadNotFound ==
  /\ \E l \in vLoads :
       /\ vLoads' = vLoads \ {l}
       /\ IF mayWrite(l.alive)
          THEN vErr' = ErrOf("Walk not found.", l.n) /\ vLoading' = FALSE
          ELSE UNCHANGED <<vErr, vLoading>>
  /\ UNCHANGED <<vMounted, vWalkId, vStarted, vWalk>>
  /\ ViewerOnly

\* getDoc rejects.
ViewerLoadRejects ==
  /\ \E l \in vLoads :
       /\ vLoads' = vLoads \ {l}
       /\ IF mayWrite(l.alive)
          THEN vErr' = ErrOf("Failed to load walk.", l.n) /\ vLoading' = FALSE
          ELSE UNCHANGED <<vErr, vLoading>>
  /\ UNCHANGED <<vMounted, vWalkId, vStarted, vWalk>>
  /\ ViewerOnly

\* What the viewer shows: its render guards in order.
viewerShows ==
  IF vWalkId = 0 \/ vLoading THEN [kind |-> "loading", of |-> 0]
  ELSE IF vErr.msg # "" THEN [kind |-> "error", of |-> vErr.load]
  ELSE IF vWalk = 0 THEN [kind |-> "nodata", of |-> 0]
  ELSE [kind |-> "walk", of |-> vWalk]

\* The dashboard mounted: its effect (deps []) has run, and the load is at
\* the await of getDocs after setLoading(true) and setErr("").
DashStart ==
  /\ gMounted = TRUE
  /\ gAlive = TRUE
  /\ gLoadPc = "loading"
  /\ gWalks = 0
  /\ gErr = ""
  /\ gLoading = TRUE

\* The dashboard is unmounted: alive = false.
DashUnmount ==
  /\ gMounted
  /\ gMounted' = FALSE
  /\ gAlive' = FALSE
  /\ UNCHANGED <<gLoadPc, gWalks, gErr, gLoading>>
  /\ DashOnly

\* getDocs resolves with n walks (n > 0 stands for the list that was read).
DashLoadOk ==
  /\ gLoadPc = "loading"
  /\ gLoadPc' = "done"
  /\ \E n \in 1..2 :
       IF mayWrite(gAlive)
       THEN gWalks' = n /\ gLoading' = FALSE
       ELSE UNCHANGED <<gWalks, gLoading>>
  /\ UNCHANGED <<gMounted, gAlive, gErr>>
  /\ DashOnly

\* getDocs rejects.
DashLoadFails ==
  /\ gLoadPc = "loading"
  /\ gLoadPc' = "done"
  /\ IF mayWrite(gAlive)
     THEN gErr' = "Failed to load walks." /\ gLoading' = FALSE
     ELSE UNCHANGED <<gErr, gLoading>>
  /\ UNCHANGED <<gMounted, gAlive, gWalks>>
  /\ DashOnly

\* --------------------------------------------------- walk viewer: preview

\* The two viewers: the one that draws the recap on a canvas with
\* generateWalkRecapPng, and the one that fetches /walk/<id>/recap-image.
Variants == {"canvas", "route"}

\* A guard that does not look at previewBusy.
mayStartWhenBusy(hasWalk, busy) == hasWalk

\* if (!walk || previewBusy) return;  /  if (!walkId || previewBusy) return;
mayStart(hasWalk, busy) == hasWalk /\ ~busy

\* URL.revokeObjectURL(url) when url is set (0 is "" or null).
revoked(set, url) == IF url # 0 THEN set \cup {url} ELSE set

PreviewStart ==
  /\ qVariant \in Variants
  /\ qHasWalk \in BOOLEAN
  /\ qBusy = FALSE
  /\ qOpen = FALSE
  /\ qUrl = 0
  /\ qRevoked = {}
  /\ qCreated = 0
  /\ qGens = 0
  /\ qStarted = 0
  /\ qAlerts = 0

\* showPreview returns at its first line.
ShowPreviewIgnored ==
  /\ ~mayStart(qHasWalk, qBusy)
  /\ UNCHANGED previewVars
  /\ PreviewOnly

\* showPreview up to its await: setPreviewBusy(true), and in the canvas
\* viewer if (previewUrl) URL.revokeObjectURL(previewUrl).
ShowPreviewBegin ==
  /\ mayStart(qHasWalk, qBusy)
  /\ qStarted < MaxPreviews
  /\ qBusy' = TRUE
  /\ qGens' = qGens + 1
  /\ qStarted' = qStarted + 1
  /\ qRevoked' = IF qVariant = "canvas" THEN revoked(qRevoked, qUrl) ELSE qRevoked
  /\ UNCHANGED <<qVariant, qHasWalk, qOpen, qUrl, qCreated, qAlerts>>
  /\ PreviewOnly

\* The image arrives: URL.createObjectURL(blob) becomes previewUrl (the route
\* viewer revokes the old one in the same update), the modal shows, and
\* finally setPreviewBusy(false).
GenerationOk ==
  /\ qGens > 0
  /\ qGens' = qGens - 1
  /\ qCreated' = qCreated + 1
  /\ qUrl' = qCreated + 1
  /\ qRevoked' = IF qVariant = "route" THEN revoked(qRevoked, qUrl) ELSE qRevoked
  /\ qOpen' = TRUE
  /\ qBusy' = FALSE
  /\ UNCHANGED <<qVariant, qHasWalk, qStarted, qAlerts>>
  /\ PreviewOnly

\* The generation throws: console.error, alert, and finally
\* setPreviewBusy(false).
GenerationFails ==
  /\ qGens > 0
  /\ qGens' = qGens - 1
  /\ qAlerts' = qAlerts + 1
  /\ qBusy' = FALSE
  /\ UNCHANGED <<qVariant, qHasWalk, qOpen, qUrl, qRevoked, qCreated, qStarted>>
  /\ PreviewOnly

\* closePreview: setPreviewOpen(false) in the canvas viewer; in the route
\* viewer the old url is revoked and previewUrl becomes null.
ClosePreview ==
  /\ qOpen
  /\ qOpen' = FALSE
  /\ IF qVariant = "canvas"
     THEN UNCHANGED <<qUrl, qRevoked>>
     ELSE qUrl' = 0 /\ qRevoked' = revoked(qRevoked, qUrl)
  /\ UNCHANGED <<qVariant, qHasWalk, qBusy, qCreated, qGens, qStarted, qAlerts>>
  /\ PreviewOnly

\* ---------------------------------------------------------- specifications

\* The variables of the parts a specification does not run.
ThinParked == tPoints = <<>> /\ tMin = 3 /\ tOut = <<>> /\ tDone = TRUE
WrapParked == wWords = <<>> /\ wDraws = <<>> /\ wDone = TRUE
RecapParked ==
  /\ rPhotoUrls = 0 /\ rHasMapUrl = FALSE /\ rNotes = <<>> /\ rPc = "resolved"
  /\ rCtx = "unknown" /\ rI = 0 /\ rFetches = <<>> /\ rOutcomes = <<>>
  /\ rDraws = <<>> /\ rBlob = "unknown"

ProxyParked ==
  /\ pUrl = Null /\ pPc = "done" /\ pUpstream = <<>> /\ pGot = Got("none")
  /\ pResp = NoResp
WeatherParked ==
  /\ xLat = Null /\ xLng = Null /\ xPc = "done" /\ xUpstream = <<>>
  /\ xGot = Got("none") /\ xResp = NoResp
ApiParked == ProxyParked /\ WeatherParked
PublishParked ==
  /\ files = 0 /\ publishing = FALSE /\ pubPc = "navigated" /\ walkId = 0
  /\ fileIdx = 0 /\ uploadedMedia = <<>> /\ walks = <<>> /\ objects = {}
  /\ alerts = 0 /\ attempts = 0

UploadParked ==
  /\ uName = <<>> /\ uRef = NoRef /\ uDone = TRUE
  /\ uType = "" /\ uStored = "" /\ uMeta = NoMeta
FitParked ==
  /\ fImg = [width |-> 1, height |-> 1]
  /\ fBox = [x |-> 0, y |-> 0, w |-> 1, h |-> 1]
  /\ fDrawn = NotDrawn
  /\ fDone = TRUE
DrawerParked ==
  /\ dMap = FALSE /\ dPoints = <<>> /\ dIsDrawing = FALSE /\ dPending = FALSE
  /\ dReported = NotReported
EarnedParked ==
  /\ eDuration = [kind |-> "NaN", v |-> 0] /\ eRoute = 0 /\ ePage = 0
  /\ eDone = TRUE
PureParked == UploadParked /\ FitParked /\ EarnedParked

\* The parts every specification below leaves parked.
SlotsParked == sMedia = <<>> /\ sSlots = <<>> /\ sDone = TRUE
PayParked ==
  yNow = 0 /\ yWalks = <<>> /\ yStart = 0 /\ yEnd = 0 /\ yTotal = 0 /\ yDone = TRUE
CalParked ==
  /\ kMonth = [first |-> 0, length |-> 0] /\ kWalks = <<>> /\ kDays = <<>>
  /\ kByDay = EmptyMap /\ kDone = TRUE
ViewerParked ==
  /\ vMounted = FALSE /\ vWalkId = 0 /\ vLoads = {} /\ vStarted = 0
  /\ vWalk = 0 /\ vErr = NoErr /\ vLoading = FALSE
DashParked ==
  /\ gMounted = FALSE /\ gAlive = FALSE /\ gLoadPc = "done" /\ gWalks = 0
  /\ gErr = "" /\ gLoading = FALSE
PreviewParked ==
  /\ qVariant = "canvas" /\ qHasWalk = FALSE /\ qBusy = FALSE /\ qOpen = FALSE
  /\ qUrl = 0 /\ qRevoked = {} /\ qCreated = 0 /\ qGens = 0
  /\ qStarted = MaxPreviews /\ qAlerts = 0
PagesParked ==
  SlotsParked /\ PayParked /\ CalParked /\ ViewerParked /\ DashParked /\ PreviewParked

ThinInit ==
  /\ ThinStart /\ WrapParked /\ RecapParked /\ ApiParked /\ PublishParked
  /\ PureParked /\ DrawerParked /\ PagesParked
ThinNext == ThinCall
SpecThin == ThinInit /\ [][ThinNext]_vars

WrapInit ==
  /\ WrapStart /\ ThinParked /\ RecapParked /\ ApiParked /\ PublishParked
  /\ PureParked /\ DrawerParked /\ PagesParked
WrapNext == WrapCall
SpecWrap == WrapInit /\ [][WrapNext]_vars

RecapInit ==
  /\ RecapStart /\ ThinParked /\ WrapParked /\ ApiParked /\ PublishParked
  /\ PureParked /\ DrawerParked /\ PagesParked
RecapNext ==
  \/ RenderNoContext
  \/ RenderBegin
  \/ MapFetched
  \/ PhotoFetched
  \/ ExportDone
SpecRecap == RecapInit /\ [][RecapNext]_vars

\* The two API routes, each serving one request, in any interleaving.
ApiInit ==
  /\ ProxyStart /\ WeatherStart /\ ThinParked /\ WrapParked /\ RecapParked
  /\ PublishParked /\ PureParked /\ DrawerParked /\ PagesParked
ApiNext ==
  \/ ProxyMissingUrl
  \/ ProxyBlockedHost
  \/ ProxyFetch
  \/ ProxyFetchThrows
  \/ ProxyUpstreamNotOk
  \/ ProxyUpstreamOk
  \/ WeatherMissingParam
  \/ WeatherFetch
  \/ WeatherFetchThrows
  \/ WeatherUpstreamNotOk
  \/ WeatherBodyNotJson
  \/ WeatherUpstreamJson
SpecApi == ApiInit /\ [][ApiNext]_vars

\* One drafted walk on the home page, published and re-published.
PublishInit ==
  /\ PublishStart /\ ThinParked /\ WrapParked /\ RecapParked /\ ApiParked
  /\ PureParked /\ DrawerParked /\ PagesParked
PublishNext ==
  \/ PublishIgnored
  \/ PublishBegin
  \/ CreateWalkOk
  \/ CreateWalkFails
  \/ UploadBytesOk
  \/ UploadBytesFails
  \/ GetUrlOk
  \/ GetUrlFails
  \/ UpdateDocOk
  \/ UpdateDocFails
SpecPublish == PublishInit /\ [][PublishNext]_vars

\* The parts every specification below leaves parked.
MachinesParked ==
  ThinParked /\ WrapParked /\ RecapParked /\ ApiParked /\ PublishParked

\* uploadMedia called once, for a file of any name.
UploadInit ==
  UploadStart /\ MachinesParked /\ FitParked /\ EarnedParked /\ DrawerParked /\ PagesParked
UploadNext == UploadCall
SpecUpload == UploadInit /\ [][UploadNext]_vars

\* drawRoundedImage called once, for any image and box.
FitInit ==
  FitStart /\ MachinesParked /\ UploadParked /\ EarnedParked /\ DrawerParked /\ PagesParked
FitNext == FitCall
SpecFit == FitInit /\ [][FitNext]_vars

\* The route drawer, from its mount on.
DrawerInit == DrawerStart /\ MachinesParked /\ PureParked /\ PagesParked
DrawerNext ==
  \/ PointerDown
  \/ PointerMove
  \/ PointerUp
  \/ Undo
  \/ Clear
  \/ RunEffects
SpecDrawer == DrawerInit /\ [][DrawerNext]_vars

\* Both copies of computeEarned called once, for any duration.
EarnedInit ==
  EarnedStart /\ MachinesParked /\ UploadParked /\ FitParked /\ DrawerParked /\ PagesParked
EarnedNext == EarnedCall
SpecEarned == EarnedInit /\ [][EarnedNext]_vars

\* The parts of the earlier specifications, all parked.
EarlierParked == MachinesParked /\ PureParked /\ DrawerParked

\* The recap-image route rendering one found walk.
SlotsInit ==
  /\ SlotsStart /\ EarlierParked /\ PayParked /\ CalParked /\ ViewerParked
  /\ DashParked /\ PreviewParked
SlotsNext == SlotsRender
SpecSlots == SlotsInit /\ [][SlotsNext]_vars

\* The dashboard's pay week and total for one instant and one walk list.
PayInit ==
  /\ PayStart /\ EarlierParked /\ SlotsParked /\ CalParked /\ ViewerParked
  /\ DashParked /\ PreviewParked
PayNext == PayRender
SpecPay == PayInit /\ [][PayNext]_vars

\* The dashboard's calendar for one month and one walk list.
CalInit ==
  /\ CalStart /\ EarlierParked /\ SlotsParked /\ PayParked /\ ViewerParked
  /\ DashParked /\ PreviewParked
CalNext == CalendarRender
SpecCalendar == CalInit /\ [][CalNext]_vars

\* The document loads of one walk viewer and one dashboard.
LoadInit ==
  /\ ViewerStart /\ DashStart /\ EarlierParked /\ SlotsParked /\ PayParked
  /\ CalParked /\ PreviewParked
LoadNext ==
  \/ ViewerWalkIdChanges
  \/ ViewerUnmount
  \/ ViewerLoadFound
  \/ ViewerLoadNotFound
  \/ ViewerLoadRejects
  \/ DashUnmount
  \/ DashLoadOk
  \/ DashLoadFails
SpecLoad == LoadInit /\ [][LoadNext]_vars

\* The preview of one walk viewer, of either kind.
PreviewInit ==
  /\ PreviewStart /\ EarlierParked /\ SlotsParked /\ PayParked /\ CalParked
  /\ ViewerParked /\ DashParked
PreviewNext ==
  \/ ShowPreviewIgnored
  \/ ShowPreviewBegin
  \/ GenerationOk
  \/ GenerationFails
  \/ ClosePreview
SpecPreview == PreviewInit /\ [][PreviewNext]_vars

\* The same, where a generation that was started settles: the awaited
\* promise resolves or rejects.
GenerationSettles == GenerationOk \/ GenerationFails
SpecPreviewFair == SpecPreview /\ WF_vars(GenerationSettles)

\* ------------------------------------------------------------------ claims

\* C3 (as stated): every two consecutive points of the sequence thinPoints
\* returns are at least minMeters apart.
C3_AllConsecutiveSpaced ==
  tDone => \A k \in 1..(Len(tOut) - 1) :
             haversineMeters(tOut[k], tOut[k + 1]) >= tMin

\* C3 (amended): for an input of more than two points, every two consecutive
\* points of the result are at least minMeters apart, except the pair that
\* ends in the final point of the result (the preserved last input point).
C3_SpacedBeforeLast ==
  (tDone /\ Len(tPoints) > 2) =>
    \A k \in 1..(Len(tOut) - 2) :
      haversineMeters(tOut[k], tOut[k + 1]) >= tMin

\* C3 witness: a call on more than two points whose result has a spaced
\* pair before the last, and whose final pair is closer than minMeters.
C3_Witness ==
  /\ tDone
  /\ Len(tPoints) > 2
  /\ Len(tOut) >= 3
  /\ tMin > 0
  /\ haversineMeters(tOut[Len(tOut) - 1], Last(tOut)) < tMin

\* C4: for a non-empty input the result ends with the last input point (the
\* same object), and that object is not duplicated: it occurs in the result
\* no more often than in the input.
C4_LastPreservedOnce ==
  (tDone /\ Len(tPoints) > 0) =>
    /\ Len(tOut) > 0
    /\ Last(tOut) = Last(tPoints)
    /\ CountIn(tOut, Last(tPoints)) <= CountIn(tPoints, Last(tPoints))

\* C4 witness: a call on more than two points in which the loop already kept
\* the last point (it is far enough from the point kept before it).
C4_Witness ==
  /\ tDone
  /\ Len(tPoints) > 2
  /\ tMin > 0
  /\ Len(tOut) >= 2
  /\ haversineMeters(tOut[Len(tOut) - 1], Last(tOut)) >= tMin
  /\ CountIn(tOut, Last(tPoints)) = 1

\* The words drawn by the fillText calls, in order.
RECURSIVE DrawnWords(_)
DrawnWords(draws) ==
  IF draws = <<>> THEN <<>> ELSE draws[1].text \o DrawnWords(Tail(draws))

\* C5: the notes block's wrapText draws at most maxLines lines, and when the
\* text is cut off (not every word is drawn) the last drawn line ends with
\* an ellipsis.
C5_AtMostMaxLines ==
  wDone =>
    /\ Len(wDraws) <= notesMaxLines
    /\ (DrawnWords(wDraws) # wWords => Last(wDraws).ellipsis)

\* The photo and fallback-box draws of the photo loop that cover rectangle rect.
CellDraws(rect) ==
  {k \in 1..Len(rDraws) :
     rDraws[k].kind \in {"photo", "fallbackBox"} /\ rDraws[k].rect = rect}

HasDraw(kind) == \E k \in 1..Len(rDraws) : rDraws[k].kind = kind

\* C1 (as stated): the call rejects only when the final canvas encoding
\* yields no blob.
C1_RejectsOnlyOnEncodeFailure == rPc = "rejected" => rBlob = "null"

\* C1 (amended): the call rejects only when getContext("2d") gave no context
\* or the final encoding yields no blob; it resolves only with a blob; and
\* whatever the map and photo fetches did, a call that is not settled yet can
\* take its next step (no fetch outcome stops or fails the render).
C1_RejectsOnlyWithoutContextOrBlob ==
  /\ rPc = "rejected" => (rCtx = "null" \/ rBlob = "null")
  /\ rPc = "resolved" => (rCtx = "ok" /\ rBlob = "blob")
  /\ rPc \in {"start", "map", "photos", "export"} => ENABLED RecapNext

\* C1 witness: a call that resolved although the map fetch and a photo fetch
\* failed.
C1_Witness ==
  /\ rPc = "resolved"
  /\ HasDraw("mapFailedText")
  /\ \E k \in 1..Len(rOutcomes) : ~rOutcomes[k]
  /\ \E k \in 1..Len(rOutcomes) : rOutcomes[k]

\* C2: a photo whose fetch failed has the fallback box, and nothing else, in
\* the cell computed for its index; a photo whose fetch succeeded is drawn,
\* once, in the cell computed for its own index; and the loop goes on past a
\* failure: when it is over, each of the first 8 photos has been handled.
C2_FailedPhotoKeepsOthers ==
  LET n == urlsLength(rPhotoUrls) IN
  /\ \A i \in 0..(Len(rOutcomes) - 1) :
       LET ds == CellDraws(cellRect(n, i)) IN
       /\ Cardinality(ds) = 1
       /\ \A k \in ds :
            IF rOutcomes[i + 1]
            THEN rDraws[k].kind = "photo" /\ rDraws[k].src = i
            ELSE rDraws[k].kind = "fallbackBox"
  /\ (rCtx = "ok" /\ rPc \in {"export", "resolved", "rejected"}) => Len(rOutcomes) = n

\* C2 witness: the loop is over, a photo in the middle failed, and the photos
\* before and after it were drawn.
C2_Witness ==
  /\ rPc = "export"
  /\ Len(rOutcomes) >= 3
  /\ \E i \in 2..(Len(rOutcomes) - 1) :
       ~rOutcomes[i] /\ rOutcomes[i - 1] /\ rOutcomes[i + 1]

\* C6: for 1 to 8 photos, every cell of the rows x cols grid is painted, with
\* a photo or with the fallback box.
C6_EveryCellPainted ==
  LET n == urlsLength(rPhotoUrls) IN
  (rCtx = "ok" /\ rPc \in {"export", "resolved"} /\ n >= 1) =>
    \A c \in 0..(rows(n) * cols(n) - 1) : CellDraws(cellRect(n, c)) # {}

\* C7: the media proxy fetches upstream only a url parameter that begins with
\* https://firebasestorage.googleapis.com/; every other non-empty url is
\* answered 403 and no host is contacted.
C7_OnlyStorageHostFetched ==
  /\ \A k \in 1..Len(pUpstream) : pUpstream[k] \in AllowedUrls
  /\ (pUrl.given /\ pUrl.value \in BlockedUrls /\ pUrl.value # "") =>
       /\ pUpstream = <<>>
       /\ pPc \in {"request", "done"}
       /\ pPc = "done" => pResp.status = 403

\* C7 witness: a url that holds the storage prefix, but not at its start, was
\* answered 403 with no upstream request.
C7_Witness ==
  /\ pPc = "done"
  /\ pUrl = Str("https://evil.example/?u=https://firebasestorage.googleapis.com/a.jpg")
  /\ pResp.status = 403
  /\ pUpstream = <<>>

\* C8: the weather GET answers 400, with no upstream request, when lat or lng
\* is missing or empty; 502 when the upstream response is not OK; 502 when
\* the upstream body lacks a numeric temperature or weather code; and 200
\* with {temperatureF, summary} in every other case.
C8_WeatherAnswers ==
  xPc \in {"done", "threw"} =>
    IF Falsy(xLat) \/ Falsy(xLng)
    THEN xResp.status = 400 /\ xUpstream = <<>>
    ELSE IF xGot.kind = "notOk"
    THEN xResp.status = 502
    ELSE IF \/ xGot.kind = "notJson"
            \/ xGot.kind = "json" /\ (~xGot.data.temp.num \/ ~xGot.data.code.num)
    THEN xResp.status = 502
    ELSE /\ xResp.status = 200
         /\ DOMAIN xResp = {"status", "temperatureF", "summary"}

\* C8, the part the code keeps: whenever the handler itself answers (the
\* upstream fetch resolved and, if OK, its body parsed as JSON), the status is
\* the one the claim names.
C8_AnswersWhenUpstreamResponds == xPc = "done" => C8_WeatherAnswers

\* C9: the media proxy answers 400 when url is missing; for a url on the
\* storage host, 502 when the upstream response is not OK and otherwise 200
\* with the upstream bytes and the upstream Content-Type
\* (application/octet-stream when the upstream gives none).
C9_ProxyAnswers ==
  pPc \in {"done", "threw"} =>
    IF ~pUrl.given
    THEN pResp.status = 400 /\ pUpstream = <<>>
    ELSE IF pUrl.value \in AllowedUrls
    THEN IF pGot.kind = "notOk"
         THEN pResp.status = 502
         ELSE /\ pResp.status = 200
              /\ pGot.kind = "ok"
              /\ pResp.body = pGot.bytes
              /\ pResp.contentType = IF pGot.header.given /\ pGot.header.value # ""
                                      THEN pGot.header.value
                                      ELSE "application/octet-stream"
    ELSE TRUE

\* C9, the part the code keeps: whenever the handler itself answers (the
\* upstream fetch resolved and, if OK, its body was read), the answer is the
\* one the claim names.
C9_AnswersWhenUpstreamResponds == pPc = "done" => C9_ProxyAnswers

\* C10: for one drafted walk, whatever the sequence of publishWalk calls
\* (calls while a publish is in flight, retries after a failed publish), at
\* most one Walk document is created in the document store.
C10_AtMostOneWalkDocument == Len(walks) <= 1

\* C10, the part the code keeps: a publishWalk call made while a publish is
\* in flight creates nothing, so there are never more documents than calls
\* that got past the guard.
C10_AtMostOnePerAttempt == Len(walks) <= attempts

\* The objects uploaded so far for the walk w.
ObjectsOf(w) == {o \in objects : o.walk = w}

\* The references of the first k selected files of walk w, in selection order.
RefsUpTo(w, k) == [j \in 1..k |-> mediaRef(w, j)]

\* C11: in publishWalk the Walk document is created, with media = [], before
\* any upload starts; the files are uploaded one at a time in selection
\* order; the document's media field is updated only after every upload has
\* succeeded, to the returned references in selection order; and with no
\* file selected no update is issued.
C11_CreateThenUploadThenUpdate ==
  /\ \A o \in objects : o.walk \in 1..Len(walks)
  /\ pubPc \in {"uploadBytes", "getUrl", "updating"} =>
       /\ walkId \in 1..Len(walks)
       /\ walks[walkId].media = <<>>
  /\ pubPc = "uploadBytes" =>
       /\ uploadedMedia = RefsUpTo(walkId, fileIdx - 1)
       /\ ObjectsOf(walkId) = {mediaRef(walkId, j) : j \in 1..(fileIdx - 1)}
  /\ pubPc = "getUrl" =>
       /\ uploadedMedia = RefsUpTo(walkId, fileIdx - 1)
       /\ ObjectsOf(walkId) = {mediaRef(walkId, j) : j \in 1..fileIdx}
  /\ pubPc = "updating" => uploadedMedia = RefsUpTo(walkId, files)
  /\ \A w \in 1..Len(walks) :
       walks[w].media # <<>> =>
         /\ walks[w].media = RefsUpTo(w, files)
         /\ ObjectsOf(w) = {mediaRef(w, j) : j \in 1..files}
  /\ files = 0 => pubPc # "updating"

\* A publish of two or more files has gone through: the document holds their
\* references.
C11_Witness ==
  /\ pubPc = "navigated"
  /\ files >= 2
  /\ Len(walks[walkId].media) = files

\* C12: every Walk document publishWalk creates carries the amountDue field
\* (the computed amount due the dashboard sums), in every state of the store.
C12_EveryWalkHasAmountDue ==
  \A w \in 1..Len(walks) : "amountDue" \in walks[w].fields

\* C19: when createWalk, an upload or the media update fails during
\* publishWalk, the alert is shown, there is no navigation, the publishing
\* flag is false again, and the store is as it was at the failure: a document
\* already created stays, with media = [], neither deleted nor given a
\* partial media list.
C19_FailureSurfacedStoreKept ==
  [][(pubPc \in {"creating", "uploadBytes", "getUrl", "updating"} /\ pubPc' = "idle") =>
       /\ alerts' = alerts + 1
       /\ publishing' = FALSE
       /\ walks' = walks
       /\ objects' = objects
       /\ pubPc # "creating" =>
            /\ walkId \in 1..Len(walks')
            /\ walks'[walkId].media = <<>>]_vars

\* An upload failed after the document was created and a file was stored.
C19_Witness ==
  /\ pubPc = "idle"
  /\ alerts > 0
  /\ ~publishing
  /\ walkId \in 1..Len(walks)
  /\ walks[walkId].media = <<>>
  /\ ObjectsOf(walkId) # {}

\* C13 (as stated): the name in the media reference uploadMedia returns is
\* the sanitized original filename: for every file name it holds only word
\* characters, dots and hyphens, every other run of characters replaced by
\* one underscore.
C13_NameIsSanitized ==
  uDone =>
    /\ \A k \in DOMAIN uRef.name : uRef.name[k] \in KeptChars
    /\ uName # <<>> => uRef.name = safeFileName(uName)

\* C13, the part the code keeps: the filename at the end of the reference's
\* storage path is the generated id, a hyphen and the sanitized file name.
C13_PathIsSanitized ==
  uDone =>
    /\ \A k \in DOMAIN uRef.filename : uRef.filename[k] \in KeptChars
    /\ uRef.filename = Uuid \o <<"-">> \o safeFileName(uName)

\* C14: during one generateWalkRecapPng render the map image URL and each
\* photo URL are requested at most once, whether the request succeeds or
\* fails; a failed request is never repeated.
C14_EachUrlRequestedOnce ==
  \A u \in {mapUrl} \cup (0..(MaxUrls - 1)) : CountIn(rFetches, u) <= 1

\* A render has resolved after the map request and a photo request failed
\* and a later photo was still requested.
C14_Witness ==
  /\ rPc = "resolved"
  /\ HasDraw("mapFailedText")
  /\ \E k \in 1..(Len(rOutcomes) - 1) : ~rOutcomes[k]
  /\ Len(rFetches) = Len(rOutcomes) + 1

\* The summary texts by code, as a table.
SummaryTable(c) ==
  CASE c = 0 -> "Clear"
    [] c \in {1, 2} -> "Partly cloudy"
    [] c = 3 -> "Overcast"
    [] c \in {45, 48} -> "Fog"
    [] c \in 51..57 -> "Drizzle"
    [] c \in 61..67 -> "Rain"
    [] c \in 71..77 -> "Snow"
    [] c \in 80..82 -> "Rain showers"
    [] c \in {85, 86} -> "Snow showers"
    [] c = 95 -> "Thunderstorm"
    [] c \in {96, 99} -> "Thunderstorm (hail)"
    [] OTHER -> "Weather"

\* C15: weatherCodeToSummary is total over integer codes and maps 0 to Clear;
\* 1, 2 to Partly cloudy; 3 to Overcast; 45, 48 to Fog; 51..57 to Drizzle;
\* 61..67 to Rain; 71..77 to Snow; 80..82 to Rain showers; 85, 86 to Snow
\* showers; 95 to Thunderstorm; 96, 99 to Thunderstorm (hail); every other
\* code to Weather; and the weather route's summary is this mapping applied
\* to the upstream code.
C15_SummaryByCode ==
  /\ \A c \in (0 - 5)..MaxCode : weatherCodeToSummary(c) = SummaryTable(c)
  /\ (xPc = "done" /\ xResp.status = 200) =>
       /\ xGot.kind = "json"
       /\ xGot.data.code.num
       /\ xResp.summary = SummaryTable(xGot.data.code.v)

\* The route answered for an upstream code of 99.
C15_Witness ==
  /\ xPc = "done"
  /\ xResp.status = 200
  /\ xGot.data.code.v = 99
  /\ xResp.summary = "Thunderstorm (hail)"

\* C16: drawRoundedImage, for every image size and every target box with
\* positive dimensions: the rectangle the image is drawn into has the image's
\* aspect ratio, fully covers the box (drawn width >= box width, drawn height
\* >= box height, one of them equal), and is centred on the box, so that the
\* overflow is cropped equally on both sides.
C16_CoverFitCentred ==
  fDone =>
    LET x == RInt(fBox.x)
        y == RInt(fBox.y)
        w == RInt(fBox.w)
        h == RInt(fBox.h)
        d == fDrawn
    IN  /\ REq(RMul(d.drawW, RInt(fImg.height)), RMul(d.drawH, RInt(fImg.width)))
        /\ ~RGt(w, d.drawW)
        /\ ~RGt(h, d.drawH)
        /\ REq(d.drawW, w) \/ REq(d.drawH, h)
        /\ REq(RSub(x, d.dx), RSub(RAdd(d.dx, d.drawW), RAdd(x, w)))
        /\ REq(RSub(y, d.dy), RSub(RAdd(d.dy, d.drawH), RAdd(y, h)))

\* An image relatively wider than its box was drawn: it overflows the box on
\* the left and on the right.
C16_Witness ==
  /\ fDone
  /\ fBox.x = 48
  /\ RGt(fDrawn.drawW, RInt(fBox.w))
  /\ RGt(RInt(fBox.x), fDrawn.dx)

RECURSIVE LegsSum(_)
\* The sum of the distances between consecutive points.
LegsSum(points) ==
  IF Len(points) < 2 THEN 0
  ELSE LegsSum(SubSeq(points, 1, Len(points) - 1))
       + haversineMeters(points[Len(points) - 1], points[Len(points)])

\* C17: in the route drawer, after any sequence of pointer-down,
\* pointer-move, pointer-up, Undo and Clear actions, once the effects have
\* run, the miles value reported through onRouteChange is the sum of the
\* distances between consecutive current points, converted to miles and
\* rounded to two decimals (here in hundredths of a mile), reported together
\* with exactly those points, and is 0 when fewer than 2 points remain.
C17_ReportedMilesMatchPoints ==
  ~dPending =>
    /\ dReported.called
    /\ dReported.points = dPoints
    /\ 2 * Abs(dReported.miles * 1609344 - LegsSum(dPoints) * 100000) <= 1609344
    /\ Len(dPoints) < 2 => dReported.miles = 0

\* A route of three points, more than a mile long, has been reported.
C17_Witness ==
  /\ ~dPending
  /\ Len(dPoints) = 3
  /\ dReported.points = dPoints
  /\ dReported.miles > 100

\* C18: computeEarned pays $20 per 30 minutes: 20 k for every duration of
\* 30 k minutes (k >= 1), 0 for a non-positive or non-finite duration, for
\* any other positive duration 20 times the number of 30-minute blocks
\* rounded to the nearest whole block; and the copy in the recap-image route
\* and the copy in the walk page return the same amount.
C18_TwentyPerHalfHour ==
  eDone =>
    /\ eRoute = ePage
    /\ (eDuration.kind # "finite" \/ eDuration.v <= 0) => eRoute = 0
    /\ (eDuration.kind = "finite" /\ eDuration.v > 0) =>
         /\ eDuration.v % 30 = 0 => eRoute = 20 * (eDuration.v \div 30)
         /\ \E k \in 0..eDuration.v :
              /\ eRoute = 20 * k
              /\ 2 * Abs(eDuration.v - 30 * k) <= 30

\* A duration that is not a whole number of blocks has been paid.
C18_Witness ==
  /\ eDone
  /\ eDuration.kind = "finite"
  /\ eDuration.v = 50
  /\ eRoute = 40
  /\ ePage = 40

\* The vertical bands of the header, the map card, the stats card and the
\* collage card: from top (included) to bottom (excluded).
Bands ==
  <<[top |-> 0, bottom |-> headerH],
    [top |-> mapY, bottom |-> mapY + mapH],
    [top |-> statsY, bottom |-> statsY + statsH],
    [top |-> collageY, bottom |-> collageY + collageH]>>

\* The four bands are pairwise disjoint and inside the canvas.
BandsDisjointInCanvas ==
  /\ \A k \in DOMAIN Bands : 0 <= Bands[k].top /\ Bands[k].top < Bands[k].bottom
                                /\ Bands[k].bottom <= H
  /\ \A j, k \in DOMAIN Bands :
       j < k => Bands[j].bottom <= Bands[k].top

\* C20: in generateWalkRecapPng every notes line wrapText draws has its
\* baseline inside the stats card's vertical band [statsY, statsY + statsH],
\* and the header, map card, stats card and collage card occupy pairwise
\* disjoint vertical bands inside the 1080 x 1920 canvas.
C20_NotesInStatsBand ==
  /\ BandsDisjointInCanvas
  /\ wDone =>
       \A k \in DOMAIN wDraws :
         statsY <= wDraws[k].y /\ wDraws[k].y <= statsY + statsH

\* C20, the part the code keeps: the bands are disjoint and inside the
\* canvas, and the first notes line is inside the stats card's band.
C20_FirstLineInStatsBand ==
  /\ BandsDisjointInCanvas
  /\ wDone => statsY <= wDraws[1].y /\ wDraws[1].y <= statsY + statsH

\* The positions of the image media of a walk, and the position of its
\* image number i (from 0) in stored order.
ImagePositions(media) == {k \in DOMAIN media : media[k].type = "image"}
NthImage(media, i) ==
  CHOOSE k \in ImagePositions(media) :
    Cardinality({j \in ImagePositions(media) : j < k}) = i

\* C21: the recap-image route renders exactly 6 photo slots; slot i shows
\* the walk's image number i, in stored order, when the walk has more than i
\* image media, and is an empty placeholder otherwise; videos are skipped and
\* images after the sixth are dropped.
C21_SixPhotoSlots ==
  sDone =>
    /\ Len(sSlots) = 6
    /\ \A i \in 0..5 :
         IF Cardinality(ImagePositions(sMedia)) > i
         THEN sSlots[i + 1] = sMedia[NthImage(sMedia, i)].url
         ELSE sSlots[i + 1] = 0

\* A walk of a video followed by seven images, rendered: the slots show
\* images 2..7 and the eighth entry is dropped.
C21_Witness ==
  /\ sDone
  /\ Len(sMedia) = 8
  /\ sMedia[1].type = "video"
  /\ Cardinality(ImagePositions(sMedia)) = 7
  /\ sSlots = <<2, 3, 4, 5, 6, 7>>

\* C22: startOfPayWeek(now) is a Friday at 00:00 local time, not after now
\* and less than 7 days before it (on a Friday, that day's midnight), and
\* endOfPayWeek is 7 calendar days later.
C22_PayWeekIsFridayToFriday ==
  yDone =>
    /\ (yStart \div minutesPerDay) % 7 = 5
    /\ yStart % minutesPerDay = 0
    /\ yStart <= yNow
    /\ yNow - yStart < 7 * minutesPerDay
    /\ ((yNow \div minutesPerDay) % 7 = 5
          => yStart = (yNow \div minutesPerDay) * minutesPerDay)
    /\ yEnd = yStart + 7 * minutesPerDay

\* The dashboard opened in the last minute of a Thursday: the pay week
\* started almost 7 days earlier.
C22_Witness ==
  /\ yDone
  /\ (yNow \div minutesPerDay) % 7 = 4
  /\ yNow - yStart = 7 * minutesPerDay - 1

\* The loaded walks whose creation time is usable and inside the pay week.
WalksInPayWeek ==
  {i \in DOMAIN yWalks :
     /\ yWalks[i].createdAt.kind = "timestamp"
     /\ yStart <= yWalks[i].createdAt.at
     /\ yWalks[i].createdAt.at < yEnd}

RECURSIVE DueOver(_, _)
\* The sum of amountDue over the walks at the positions S, a missing or
\* non-numeric one counting 0.
DueOver(ws, S) ==
  IF S = {} THEN 0
  ELSE LET i == CHOOSE j \in S : TRUE
       IN  (IF ws[i].amountDue.num THEN ws[i].amountDue.v ELSE 0)
           + DueOver(ws, S \ {i})

\* C23: the pay-week total is the sum of amountDue over exactly the loaded
\* walks created at t with payStart <= t < payEnd; walks without a usable
\* creation time are left out and a non-numeric amountDue counts 0.
C23_PayTotalIsSumOverPayWeek == yDone => yTotal = DueOver(yWalks, WalksInPayWeek)

\* A walk created exactly at payEnd is left out while one created at payStart
\* counts with its 35.
C23_Witness ==
  /\ yDone
  /\ Len(yWalks) = 2
  /\ yWalks[1].createdAt = Timestamp(yEnd)
  /\ yWalks[1].amountDue = Num(20)
  /\ yWalks[2].createdAt = Timestamp(yStart)
  /\ yWalks[2].amountDue = Num(35)
  /\ yTotal = 35

\* The loaded walks with a usable creation time.
UsableWalks == {i \in DOMAIN kWalks : kWalks[i].createdAt.kind = "timestamp"}

RECURSIVE CountOver(_, _)
\* The sum of the counts of the aggregates at the keys S.
CountOver(byDay, S) ==
  IF S = {} THEN 0
  ELSE LET k == CHOOSE j \in S : TRUE
       IN  byDay[k].count + CountOver(byDay, S \ {k})

\* C24: the calendar's day list starts on a Sunday, ends on a Saturday, is
\* consecutive, has a multiple of 7 days and holds every day of the selected
\* month; each walk with a usable timestamp is counted once, under its day.
C24_CalendarWeeksAndCounts ==
  kDone =>
    /\ kDays # <<>>
    /\ kDays[1] % 7 = 0
    /\ kDays[Len(kDays)] % 7 = 6
    /\ \A i \in 1..(Len(kDays) - 1) : kDays[i + 1] = kDays[i] + 1
    /\ Len(kDays) % 7 = 0
    /\ \A d \in kMonth.first..(kMonth.first + kMonth.length - 1) :
         \E i \in 1..Len(kDays) : kDays[i] = d
    /\ CountOver(kByDay, DOMAIN kByDay) = Cardinality(UsableWalks)
    /\ \A d \in DOMAIN kByDay :
         kByDay[d].count =
           Cardinality({i \in UsableWalks :
                          kWalks[i].createdAt.at \div minutesPerDay = d})

\* A 31-day month that starts on a Saturday takes six weeks, and two walks
\* of one day are counted under that day.
C24_Witness ==
  /\ kDone
  /\ Len(kDays) = 42
  /\ \E d \in DOMAIN kByDay : kByDay[d].count = 2

\* C25 (the stale load): a load that completes after its component was
\* unmounted, or after a newer load started, writes nothing to walk, err or
\* loading, in the viewer and in the dashboard.
C25_StaleLoadWritesNothing ==
  [][/\ (\E l \in vLoads : ~l.alive /\ vLoads' = vLoads \ {l})
          => UNCHANGED <<vWalk, vErr, vLoading>>
     /\ (~gAlive /\ gLoadPc = "loading" /\ gLoadPc' = "done")
          => UNCHANGED <<gWalks, gErr, gLoading>>]_vars

\* C25 (the displayed state): what the mounted viewer shows, a walk or an
\* error, comes from the load for the latest walkId.
C25_ShownFromLatestLoad ==
  vMounted =>
    /\ viewerShows.kind = "walk" => viewerShows.of = vWalkId
    /\ viewerShows.kind = "error" => viewerShows.of = vStarted
    /\ viewerShows.kind # "nodata"

C26_OneGenerationAndBusyCleared ==
  /\ [](qGens <= 1)
  /\ [][qGens' < qGens => ~qBusy']_vars
  /\ (qBusy ~> ~qBusy)

\* One generation failed, one succeeded, and the viewer is not busy.
C26_Witness ==
  /\ qStarted >= 2 /\ qAlerts >= 1 /\ qCreated >= 1 /\ ~qBusy /\ qGens = 0

\* C27: in the canvas viewer the previewUrl held in state is empty or an
\* object URL that has not been revoked.
C27_HeldUrlNotRevoked ==
  qVariant = "canvas" => (qUrl = 0 \/ qUrl \notin qRevoked)

\* The same for the viewer that fetches the recap-image route.
C27_RouteViewerUrlNotRevoked ==
  qVariant = "route" => (qUrl = 0 \/ qUrl \notin qRevoked)

\* The photo and fallback-box drawings of the canvas, and rectangles.
PhotoDrawAt ==
  {k \in 1..Len(rDraws) : rDraws[k].kind \in {"photo", "fallbackBox"}}
Inside(a, b) ==
  /\ a.x >= b.x /\ a.y >= b.y
  /\ a.x + a.w <= b.x + b.w /\ a.y + a.h <= b.y + b.h
Apart(a, b) ==
  \/ a.x + a.w <= b.x \/ b.x + b.w <= a.x
  \/ a.y + a.h <= b.y \/ b.y + b.h <= a.y
GridArea == [x |-> gridX, y |-> gridY, w |-> gridW, h |-> gridH]
CollageCard == [x |-> pad, y |-> collageY, w |-> W - pad * 2, h |-> collageH]
ColumnsFor(n) == IF n <= 4 THEN 2 ELSE IF n <= 6 THEN 3 ELSE 4

C29_ThinPointsIdempotent == tDone => thinPoints(tOut, tMin) = tOut

\* A thinning that dropped a point and kept the last one although it is
\* closer than minMeters to the one kept before it.
C29_Witness ==
  /\ tDone
  /\ Len(tPoints) = 4
  /\ Len(tOut) = 3
  /\ tMin > 0
  /\ haversineMeters(tOut[2], tOut[3]) < tMin

\* C29 (the route drawer): when a pointer event appends a point, every
\* point that was kept at least 2 m from the point before it is still in
\* the list, at its position.
C29_AppendKeepsSpacedPoints ==
  [][(Len(dPoints') > 0 /\ dPoints' # dPoints /\ Len(dPoints') >= Len(dPoints))
       => \A k \in 2..Len(dPoints) :
            (\A j \in 2..k : haversineMeters(dPoints[j - 1], dPoints[j]) >= 2)
              => (k <= Len(dPoints') /\ dPoints'[k].lat = dPoints[k].lat)]_vars

\* C30: the contentType recorded in the returned media reference is the
\* content type the object was uploaded with, and the recorded kind is
\* video exactly when that content type starts with video/.
C30_ContentTypeRecordedAsUploaded ==
  uDone =>
    /\ uMeta.contentType = uStored
    /\ uMeta.type = "video" <=> startsWith(uStored, "video/")

\* C30 (typed files): for a file with a MIME type the recorded contentType
\* is the uploaded one.
C30_TypedFileRecordedAsUploaded ==
  (uDone /\ uType # "") => uMeta.contentType = uStored

====
